---- MODULE Spec2Model ----
(***************************************************************************)
(* Model of the aggregation / fallback-resolution pipeline of the addon:   *)
(*   - the resolve handler  app.get('/:apiKeys/:encodedData')  (index.js)  *)
(*   - the search fan-out   getStreams                          (index.js) *)
(*   - the stream endpoint  app.get('/:apiKeys/stream/...')     (index.js) *)
(*   - Premiumize.checkCacheStatuses                       (premiumize.js) *)
(*   - the file selectors of Premiumize and RealDebrid     (premiumize.js) *)
(*   - the Stream Cache: cleanup, concurrent writers, tokens    (index.js) *)
(* Strings that the code compares or converts are modelled by records that *)
(* keep the part the code looks at: an info-hash string keeps its torrent  *)
(* id and its letter case, a URL keeps its scheme, a token keeps whether   *)
(* its payload is a JSON object or a bare magnet link.                     *)
(***************************************************************************)
EXTENDS Integers, Sequences, FiniteSets, TLC

\* ------------------------------------------------------------------ bounds
\* longest fallback list a stream request stores under a content key
MaxFallback == 2
\* longest result array one indexer backend answers with
MaxResults == 2
\* longest short list getStreams hands to the stream endpoint
MaxNew == 2
\* longest list getStreams hands to the stream endpoint
MaxStreams == 102
\* longest of the medium-sized lists
MaxMedium == 30
\* longest list of formatted streams ranked on its own
MaxRank == 3
\* most hashes handed to one batched cache check
MaxHashes == 199
\* longest file list a file selector is run on
MaxFiles == 2
\* number of distinct content keys stream requests are made for
MaxKeys == 1002
MaxTicks == 4

\* ------------------------------------------------------------ hash strings
\* An info-hash string: which torrent, and whether it is written in upper case.
NoHash == [id |-> "none", up |-> FALSE]

\* String.prototype.toLowerCase on a hash string
ToLowerCase(h) == [h EXCEPT !.up = FALSE]

\* A magnet link keeps its btih field (NoHash: a magnet link without btih).
Magnet(h) == [btih |-> h]
NoBtihMagnet == Magnet(NoHash)
NoMagnet == [btih |-> [id |-> "absent", up |-> FALSE]]

\* extractInfoHash(magnetLink) of util.js: the btih field, or null (NoHash)
ExtractInfoHash(m) == m.btih

\* parseQuality(filename) of util.js: the numeric quality tier of a name
ParseQuality(f) ==
    CASE f = "Show.2160p.mkv" -> 2160
      [] f \in {"Show.1080p.mkv", "Show.1080p.4GB.mkv", "Show.1080p.50GB.mkv"} -> 1080
      [] f = "Show.720p.mkv" -> 720
      [] f = "Show.480p.mkv" -> 480
      [] OTHER -> 0

\* ------------------------------------------------------------ content keys
\* cacheKey = `${type}-${tmdbId}${season ? `-s${season}e${episode}` : ''}`
NoKey == [type |-> "none", id |-> "none", season |-> 0, episode |-> 0]
MovieKey == [type |-> "movie", id |-> "tt1", season |-> 0, episode |-> 0]
SeriesKey == [type |-> "series", id |-> "tt2", season |-> 1, episode |-> 5]
CacheKeys == {MovieKey, SeriesKey}

\* ------------------------------------------------------------------ tokens
\* encodedData: base64 of JSON {magnetLink, cacheKey}, or (legacy) base64 of
\* the bare magnet link.  json says which of the two the decoded text is.
TokenMagnets == {Magnet([id |-> "h1", up |-> FALSE]),
                 Magnet([id |-> "h1", up |-> TRUE]),
                 NoBtihMagnet}
Tokens ==
    [json : {TRUE}, magnetLink : TokenMagnets \ {NoBtihMagnet}, cacheKey : CacheKeys]
        \cup [json : {FALSE}, magnetLink : TokenMagnets, cacheKey : {NoKey}]

\* JSON.parse(base64Decode(encodedData)) succeeds on an object, throws on a
\* bare magnet link; the catch falls back to the legacy format.
DecodeMagnet(t) == t.magnetLink
\* (variant: a token without a key is given the series key)
DecodeCacheKeyDefault(t) == IF t.json THEN t.cacheKey ELSE SeriesKey
DecodeCacheKey(t) == IF t.json THEN t.cacheKey ELSE NoKey

\* --------------------------------------------------------------- providers
\* getDebridServices(apiKeys): the configured providers, in configured order
Configs == {<< >>,
            <<"Premiumize">>,
            <<"RealDebrid", "Premiumize">>,
            <<"Premiumize", "TorBox", "RealDebrid">>}

\* What one provider call can end with:
\*   "http"     returns a string starting with http
\*   "nonhttp"  returns a non-empty string that does not start with http
\*   "empty"    returns null / undefined / ""
\*   "NOT_PREMIUM", "ACTIVE_LIMIT", "Error"   throws an Error with that message
\*   "object"   throws a plain object that has no message property
PremiumizeOutcomes == {"http", "nonhttp", "empty", "Error"}
RealDebridOutcomes == {"http", "nonhttp", "empty", "Error", "object"}
TorBoxOutcomes == {"http", "nonhttp", "empty", "NOT_PREMIUM", "ACTIVE_LIMIT", "Error"}
ProviderOutcomes(p) ==
    CASE p = "Premiumize" -> PremiumizeOutcomes
      [] p = "RealDebrid" -> RealDebridOutcomes
      [] OTHER -> TorBoxOutcomes

\* The URL a provider returns for a magnet link.
Url(scheme, m, p) == [scheme |-> scheme, of |-> m, by |-> p]
NoUrl == Url("none", NoMagnet, "none")

\* Results of one attempt, as the resolver's loop sees it.
Redirect(u) == [kind |-> "redirect", url |-> u]
NextProvider == [kind |-> "next", url |-> NoUrl]
Throws == [kind |-> "throw", url |-> NoUrl]

\* getValidStreamingUrl: null unless the URL starts with http; the catch reads
\* error.message, which a plain thrown object does not have.
GetValidStreamingUrl(o, m, p) ==
    CASE o = "http" -> Redirect(Url("http", m, p))
      [] o \in {"nonhttp", "empty"} -> NextProvider
      [] o = "NOT_PREMIUM" -> NextProvider
      [] o = "ACTIVE_LIMIT" -> NextProvider
      [] o = "Error" -> NextProvider
      [] OTHER -> Throws

\* The Premiumize branch of the loops: redirect on any truthy result, the
\* branch's own try/catch continues with the next provider.
PremiumizeAttempt(o, m, p) ==
    CASE o = "http" -> Redirect(Url("http", m, p))
      [] o = "nonhttp" -> Redirect(Url("other", m, p))
      [] OTHER -> NextProvider

AttemptResult(p, o, m) ==
    IF p = "Premiumize" THEN PremiumizeAttempt(o, m, p)
    ELSE GetValidStreamingUrl(o, m, p)

\* ------------------------------------------------------------ Stream Cache
Absent == << [hash |-> NoHash, magnetLink |-> NoMagnet, filename |-> "absent"] >>
\* The torrents the backends know: magnet link as published, and file name.
Torrents ==
    {[magnetLink |-> Magnet([id |-> "h1", up |-> TRUE]), filename |-> "Show.1080p.mkv"],
     [magnetLink |-> Magnet([id |-> "h2", up |-> FALSE]), filename |-> "Show.720p.mkv"],
     [magnetLink |-> Magnet([id |-> "h3", up |-> FALSE]), filename |-> "Show.2160p.mkv"]}
\* cachedStreamsForFallback entry: hash is lower-cased, magnetLink kept as found
FallbackEntry(t) ==
    [hash |-> ToLowerCase(ExtractInfoHash(t.magnetLink)),
     magnetLink |-> t.magnetLink, filename |-> t.filename]
FallbackEntries == {FallbackEntry(t) : t \in Torrents}
SeqsUpTo(S, n) == UNION {[1..k -> S] : k \in 0..n}
FallbackLists == SeqsUpTo(FallbackEntries, MaxFallback) \ {<< >>}

\* Array.prototype.sort with (a, b) => qualityB - qualityA: stable, descending
RECURSIVE InsertByQuality(_, _)
InsertByQuality(x, s) ==
    IF s = << >> THEN <<x>>
    ELSE IF ParseQuality(Head(s).filename) >= ParseQuality(x.filename)
         THEN <<Head(s)>> \o InsertByQuality(x, Tail(s))
         ELSE <<x>> \o s
RECURSIVE SortByQuality(_)
SortByQuality(s) ==
    IF s = << >> THEN << >>
    ELSE InsertByQuality(s[Len(s)], SortByQuality(SubSeq(s, 1, Len(s) - 1)))

\* (variant: the primary is not filtered out of the alternates)
SortedFallbacksUnfiltered(cachedStreams, h) == SortByQuality(cachedStreams)
\* cachedStreams.filter(stream => stream.hash !== hash).sort(...)
SortedFallbacks(cachedStreams, h) ==
    SortByQuality(SelectSeq(cachedStreams, LAMBDA e : e.hash # h))

\* (variant: the stored array itself is sorted)
StoredAfterSortInPlace(cachedStreams) == SortByQuality(cachedStreams)
\* the array the Map holds once sortedFallbacks is built: filter returns a
\* new array and sort reorders that one, so cachedStreams is as it was
StoredAfterSort(cachedStreams) == cachedStreams

\* ------------------------------------------------------------------ search
\* Object.values(STREAM_SOURCES), in definition order
BackendOrder == <<"b1", "b2", "b3">>
Backends == {BackendOrder[i] : i \in 1..Len(BackendOrder)}

\* getStreams(type, id, season, episode); season and episode are the strings
\* split from the request id, "" when absent
Queries == {[type |-> "movie", id |-> "tt1", season |-> "", episode |-> ""],
            [type |-> "series", id |-> "tt2", season |-> "1", episode |-> "5"],
            [type |-> "series", id |-> "tt2", season |-> "1", episode |-> ""],
            [type |-> "series", id |-> "tt2", season |-> "", episode |-> ""],
            [type |-> "movie", id |-> "xx", season |-> "", episode |-> ""]}
NoQuery == [type |-> "none", id |-> "", season |-> "", episode |-> ""]

\* getIdType(id): 'imdb' for tt..., 'tmdb' for tmdb-... or digits, else null
GetIdType(id) ==
    CASE id \in {"tt1", "tt2"} -> "imdb"
      [] id \in {"tmdb-7", "7"} -> "tmdb"
      [] OTHER -> "null"

\* parseInt of a decimal string
ParseInt(str) ==
    CASE str = "1" -> 1
      [] str = "5" -> 5
      [] str = "6" -> 6
      [] OTHER -> 0

\* title.match(/s(\d{1,2})e(\d{1,2})/i): the two captured groups, << >> when
\* the title has no such marker.  Each group takes at most two digits and the
\* pattern is not anchored behind the second group, so of "s01e050" it
\* captures "01" and "05".
SxxExx(title) ==
    CASE title \in {"Show.S01E05.720p", "Show.S01E05.2160p"} -> <<"01", "05">>
      [] title = "Show.S01E06.720p" -> <<"01", "06">>
      [] title = "Show.S01E050.720p" -> <<"01", "05">>
      [] OTHER -> << >>
ParseIntPadded(str) ==
    CASE str = "01" -> 1
      [] str = "05" -> 5
      [] str = "06" -> 6
      [] OTHER -> 0

\* The entries a backend's results array can hold.
RawResults ==
    {[title |-> "Show.S01E05.720p", magnetLink |-> Magnet([id |-> "h1", up |-> FALSE])],
     [title |-> "Show.S01E05.2160p", magnetLink |-> Magnet([id |-> "h1", up |-> TRUE])],
     [title |-> "Show.S01E06.720p", magnetLink |-> Magnet([id |-> "h2", up |-> FALSE])],
     [title |-> "Show.S01E050.720p", magnetLink |-> Magnet([id |-> "h3", up |-> FALSE])]}
\* A response body: "malformed" (not JSON, or without a results array), or
\* {results: [...]}; a backend lists an entry once
ResultArrays ==
    {s \in SeqsUpTo(RawResults, MaxResults) :
        \A i, j \in 1..Len(s) : i # j => s[i] # s[j]}

\* results.map(result => ({...result, source: source.name}))
TagSource(results, b) ==
    [i \in 1..Len(results) |->
        [title |-> results[i].title, magnetLink |-> results[i].magnetLink, source |-> b]]

\* the episode filter of the fetch callback
EpisodeFilter(results, q) ==
    IF q.type = "series" /\ q.season # "" /\ q.episode # ""
    THEN SelectSeq(results, LAMBDA r :
            /\ SxxExx(r.title) # << >>
            /\ ParseIntPadded(SxxExx(r.title)[1]) = ParseInt(q.season)
            /\ ParseIntPadded(SxxExx(r.title)[2]) = ParseInt(q.episode))
    ELSE results

\* stream.magnetLink.match(/btih:([a-f0-9]+)/i)?.[1]
BtihMatch(m) == m.btih

\* (variant: the hash is not lower-cased before it is looked up)
DedupKeyRaw(m) == BtihMatch(m)
\* the key a stream is deduplicated by
DedupKey(m) == ToLowerCase(BtihMatch(m))

\* the forEach over allResults: first-seen entry of each hash is pushed
RECURSIVE Dedup(_, _, _)
Dedup(streams, seenMagnets, combinedResults) ==
    IF streams = << >> THEN combinedResults
    ELSE LET stream == Head(streams) IN
         IF \/ stream.magnetLink = NoMagnet
            \/ BtihMatch(stream.magnetLink) = NoHash
            \/ DedupKey(stream.magnetLink) \in seenMagnets
         THEN Dedup(Tail(streams), seenMagnets, combinedResults)
         ELSE Dedup(Tail(streams),
                    seenMagnets \cup {DedupKey(stream.magnetLink)},
                    Append(combinedResults,
                           [hash |-> DedupKey(stream.magnetLink),
                            magnetLink |-> stream.magnetLink,
                            filename |-> stream.title,
                            websiteTitle |-> stream.title,
                            source |-> stream.source]))

\* result.value of every fulfilled promise, in the order of the sources
RECURSIVE Concat(_, _)
Concat(values, order) ==
    IF order = << >> THEN << >>
    ELSE values[Head(order)] \o Concat(values, Tail(order))

\* (variant: the catch rethrows)
CatchRethrow == [value |-> << >>, escaped |-> TRUE]
\* catch (error) { return []; }
Catch == [value |-> << >>, escaped |-> FALSE]

\* --------------------------------------------------------- stream endpoint
\* parseSize(filename) of util.js: the size a name declares, in MB; 0 when the
\* name declares none
ParseSize(f) ==
    CASE f = "Show.1080p.4GB.mkv" -> 4000
      [] f = "Show.1080p.50GB.mkv" -> 50000
      [] OTHER -> 0

Abs(x) == IF x < 0 THEN 0 - x ELSE x
Min(a, b) == IF a <= b THEN a ELSE b

\* Array.prototype.sort(compare): stable; an element goes behind every element
\* the comparator puts before it and behind the earlier elements it ties with.
\* compare[j][i] is the comparator's value on (s[j], s[i]).
StableSort(s, compare) ==
    LET n == Len(s)
        pos == [i \in 1..n |->
                  1 + Cardinality({j \in 1..n :
                          LET c == compare[j][i] IN c < 0 \/ (j < i /\ c = 0)})]
        at == [k \in 1..n |-> CHOOSE i \in 1..n : pos[i] = k]
    IN [k \in 1..n |-> s[at[k]]]

CACHE_CHECK_TIMEOUT == 20000
OVERALL_TIMEOUT == 30000
MAX_STREAMS_TO_PROCESS == 100
MAX_RESPONSE_STREAMS == 50
SIZE_REFERENCE == 5000
\* if (streamCache.size > 1000) ... entries.slice(-500)
STREAM_CACHE_LIMIT == 1000
KEEP_NEWEST == 500
CACHE_TTL == 1800000

\* the comparator of the pre-probe sort
TriageCompare(a, b) ==
    IF ParseQuality(a.filename) # ParseQuality(b.filename)
    THEN ParseQuality(b.filename) - ParseQuality(a.filename)
    ELSE Abs(ParseSize(a.filename) - SIZE_REFERENCE)
             - Abs(ParseSize(b.filename) - SIZE_REFERENCE)
\* the comparator applied to every pair of the array
TriageOrder(list) ==
    [j \in 1..Len(list) |-> [i \in 1..Len(list) |-> TriageCompare(list[j], list[i])]]

\* (variant: the sorted list is not truncated)
LimitedStreamsAll(list) == StableSort(list, TriageOrder(list))
\* newStreams.sort(...).slice(0, MAX_STREAMS_TO_PROCESS)
LimitedStreams(list) ==
    SubSeq(StableSort(list, TriageOrder(list)), 1, Min(Len(list), MAX_STREAMS_TO_PROCESS))

\* What getStreams can hand to the endpoint: candidates with distinct hashes.
Candidate(id, filename, source) ==
    [hash |-> [id |-> id, up |-> FALSE],
     magnetLink |-> Magnet([id |-> id, up |-> FALSE]),
     filename |-> filename, websiteTitle |-> filename, source |-> source]
ShortCandidates ==
    {Candidate("h1", "Show.1080p.4GB.mkv", "b1"),
     Candidate("h2", "Show.1080p.50GB.mkv", "b2"),
     Candidate("h3", "Show.2160p.mkv", "b1")}
SearchOutputs ==
    {s \in SeqsUpTo(ShortCandidates, MaxNew) : \A i, j \in 1..Len(s) : i # j => s[i] # s[j]}
\* Long results: n candidates, the i-th named by i and the offset k
GenFilename(i) ==
    CASE i % 4 = 0 -> "Show.720p.mkv"
      [] i % 4 = 1 -> "Show.1080p.50GB.mkv"
      [] i % 4 = 2 -> "Show.2160p.mkv"
      [] OTHER -> "Show.1080p.4GB.mkv"
LongList(n, k) == [i \in 1..n |-> Candidate(ToString(i), GenFilename(i + k), "b1")]
LongOutputs ==
    {LongList(n, k) : n \in (3..MaxMedium) \cup ((MAX_STREAMS_TO_PROCESS - 1)..MaxStreams),
                      k \in 0..1}

\* what each configured provider's cache check is handed
ProbeInputs(list, services) ==
    LET limited == LimitedStreams(list) IN
    [p \in {"Premiumize", "RealDebrid", "TorBox"} |->
        IF \E i \in 1..Len(services) : services[i] = p THEN limited ELSE << >>]

\* cacheKey of the stream endpoint
StreamCacheKey(q) ==
    [type |-> q.type, id |-> q.id, season |-> ParseInt(q.season),
     episode |-> IF q.season = "" THEN 0 ELSE ParseInt(q.episode)]

Providers == {"Premiumize", "RealDebrid", "TorBox"}
\* What a provider's cache check answers for the hashes it is handed, by
\* position: "true" | "false" | "undefined" (an entry without a usable cached
\* value) | "absent" (no entry for the hash); or it throws.
Answers == {"allTrue", "allFalse", "firstTrue", "firstUndefined", "empty", "throws"}
RawAnswer(answer, n) ==
    [i \in 1..n |->
        CASE answer = "allTrue" -> "true"
          [] answer = "allFalse" -> "false"
          [] answer = "firstTrue" -> IF i = 1 THEN "true" ELSE "false"
          [] answer = "firstUndefined" -> IF i = 1 THEN "undefined" ELSE "false"
          [] OTHER -> "absent"]

CacheEntry(stream, cached, reported) ==
    [hash |-> ToLowerCase(stream.hash), magnetLink |-> stream.magnetLink,
     filename |-> stream.filename, source |-> stream.source,
     cached |-> cached, reported |-> reported]
\* the entries of a cache map, in insertion order: one per stream the
\* provider has a result for; cached[i] is the flag stored for answer raw[i]
CacheMapOf(streams, raw, cached) ==
    LET idx == SelectSeq([i \in 1..Len(streams) |-> i], LAMBDA i : raw[i] # "absent") IN
    [k \in 1..Len(idx) |-> CacheEntry(streams[idx[k]], cached[idx[k]], raw[idx[k]])]

\* cached: result.cached !== false
NotFalse(c) == IF c # "false" THEN "true" ELSE "false"
AsReported(c) == c

\* checkCacheStatuses(service, streams) of index.js: a throw of the service is
\* caught and an empty map returned
CheckCacheStatuses(streams, answer) ==
    IF answer = "throws" THEN << >>
    ELSE LET raw == RawAnswer(answer, Len(streams))
         IN CacheMapOf(streams, raw, [i \in 1..Len(raw) |-> NotFalse(raw[i])])
\* checkRDCache(service, streams) of rdhelper.js: the map, entries as reported
CheckRDCache(streams, answer) ==
    LET raw == RawAnswer(answer, Len(streams))
    IN CacheMapOf(streams, raw, [i \in 1..Len(raw) |-> AsReported(raw[i])])

\* Object.values(cacheMap).filter(stream => stream && stream.hash && stream.cached)
ServiceStreams(cacheMap, serviceName) ==
    LET kept == SelectSeq(cacheMap, LAMBDA e : e.cached = "true") IN
    [i \in 1..Len(kept) |->
        [stream |-> kept[i], service |-> serviceName, hash |-> ToLowerCase(kept[i].hash)]]

\* what the promise of one provider's cache check settles with
ProbeOk(serviceName, streams) ==
    [serviceName |-> serviceName, streams |-> streams, success |-> TRUE]
ProbeFailed(serviceName) ==
    [serviceName |-> serviceName, streams |-> << >>, success |-> FALSE]
NoProbe == [serviceName |-> "none", streams |-> << >>, success |-> FALSE]

\* the body of the cacheCheckPromises callback, from the provider's answer on
ProbeOutcome(p, streams, answer) ==
    IF p = "RealDebrid"
    THEN IF answer = "throws" THEN ProbeFailed(p)
         ELSE ProbeOk(p, ServiceStreams(CheckRDCache(streams, answer), p))
    ELSE ProbeOk(p, ServiceStreams(CheckCacheStatuses(streams, answer), p))

\* ------------------------------------------- Premiumize.checkCacheStatuses
BatchSize == 99
Retries == 3

\* hashes.slice(i, i + batchSize), i counted from 0
Slice(hashes, i) == SubSeq(hashes, i + 1, Min(i + BatchSize, Len(hashes)))
\* (variant: the step of the loop is one more than the slice holds)
NextStartSkipping(i) == i + BatchSize + 1
\* i += batchSize
NextStart(i) == i + BatchSize
\* for (let i = 0; i < hashes.length; i += batchSize) batches.push(...)
RECURSIVE Batches(_, _)
Batches(hashes, i) ==
    IF i < Len(hashes) THEN <<Slice(hashes, i)>> \o Batches(hashes, NextStart(i))
    ELSE << >>

\* The hashes handed to the check: n distinct hashes.
HashArray(n) == [i \in 1..n |-> i]

\* data.response of an answer, by position in the batch: "allTrue", "short"
\* (the array ends after its first entry), or "missing" (no response array)
Responses == {"allTrue", "short", "missing"}
ResponseAt(resp, index) ==
    IF resp = "allTrue" \/ index = 1 THEN "true" ELSE "undefined"

\* batch.forEach((hash, index) => results[hash] = {cached: data.response[index]})
AddBatch(results, batch, resp) ==
    LET added == {batch[k] : k \in 1..Len(batch)}
        indexOf(h) == CHOOSE k \in 1..Len(batch) : batch[k] = h
    IN [h \in (DOMAIN results) \cup added |->
           IF h \in added THEN ResponseAt(resp, indexOf(h)) ELSE results[h]]

\* catch (error) { return {}; }
CatchBatch(results) == << >>

\* ------------------------------------------------- file selection (pure)
\* A path is the sequence of its characters.
Letters == {"a", "b", "c", "d", "e", "f", "g", "h", "i", "j", "k", "l", "m", "n", "o",
            "p", "q", "r", "s", "t", "u", "v", "w", "x", "y", "z"}
DigitChars == <<"0", "1", "2", "3", "4", "5", "6", "7", "8", "9">>
DigitSet == {DigitChars[i] : i \in 1..Len(DigitChars)}
Alphabet == Letters \cup DigitSet \cup {"S", "E", ".", "/", " ", "-"}

\* String.prototype.toLowerCase, per character and per string
LowerChar(c) == CASE c = "S" -> "s" [] c = "E" -> "e" [] OTHER -> c
ToLower(str) == [i \in 1..Len(str) |-> LowerChar(str[i])]

\* Number.prototype.toString for 0..99, and padStart(2, '0')
NumToString(n) ==
    IF n < 10 THEN <<DigitChars[n + 1]>>
    ELSE <<DigitChars[(n \div 10) + 1], DigitChars[(n % 10) + 1]>>
PadStart2(str) == IF Len(str) < 2 THEN <<"0">> \o str ELSE str

\* String.prototype.includes / endsWith
Includes(str, word) ==
    \E i \in 1..(Len(str) - Len(word) + 1) : SubSeq(str, i, i + Len(word) - 1) = word
EndsWith(str, word) ==
    Len(word) <= Len(str) /\ SubSeq(str, Len(str) - Len(word) + 1, Len(str)) = word
\* str.split(sep).length for a one-character separator
SplitLength(str, sep) == 1 + Cardinality({i \in 1..Len(str) : str[i] = sep})
\* str.split('.').pop()
LastPart(str, sep) ==
    LET at == {i \in 1..Len(str) : str[i] = sep}
    IN IF at = {} THEN str
       ELSE SubSeq(str, (CHOOSE i \in at : \A j \in at : j <= i) + 1, Len(str))

\* A regular expression without anchors is a sequence of items: one character
\* of a class, an optional character of a class (?), or any run of characters
\* of a class (*).
One(class) == [class |-> class, q |-> "one"]
Opt(class) == [class |-> class, q |-> "opt"]
Star(class) == [class |-> class, q |-> "star"]
Lit(word) == [i \in 1..Len(word) |-> One({word[i]})]
AnyChar == Alphabet
NonDigit == Alphabet \ DigitSet
Space == {" "}

RECURSIVE MatchAt(_, _, _, _)
MatchAt(pattern, p, str, i) ==
    IF p > Len(pattern) THEN TRUE
    ELSE LET item == pattern[p]
             here == i <= Len(str) /\ str[i] \in item.class
         IN CASE item.q = "one" -> here /\ MatchAt(pattern, p + 1, str, i + 1)
              [] item.q = "opt" -> \/ (here /\ MatchAt(pattern, p + 1, str, i + 1))
                                   \/ MatchAt(pattern, p + 1, str, i)
              [] item.q = "star" -> \/ MatchAt(pattern, p + 1, str, i)
                                    \/ (here /\ MatchAt(pattern, p, str, i + 1))
\* RegExp.prototype.test
Test(pattern, str) == \E i \in 1..(Len(str) + 1) : MatchAt(pattern, 1, str, i)

WordSeason == <<"s", "e", "a", "s", "o", "n">>
WordEpisode == <<"e", "p", "i", "s", "o", "d", "e">>
WordSample == <<"s", "a", "m", "p", "l", "e">>
WordTrailer == <<"t", "r", "a", "i", "l", "e", "r">>

\* badKeywords of scoreMovieFile
BadKeywords ==
    {WordSample, WordTrailer,
     <<"p", "r", "e", "v", "i", "e", "w">>, <<"e", "x", "t", "r", "a", "s">>,
     <<"b", "o", "n", "u", "s">>, <<"d", "e", "l", "e", "t", "e", "d">>,
     <<"b", "e", "h", "i", "n", "d">>, <<"m", "a", "k", "i", "n", "g">>,
     <<"i", "n", "t", "e", "r", "v", "i", "e", "w">>,
     <<"f", "e", "a", "t", "u", "r", "e", "t", "t", "e">>}

\* /\.(mkv|mp4|avi|mov|wmv|m4v|webm)$/i  (Premiumize.getFileList)
VideoSuffixes ==
    {<<".", "m", "k", "v">>, <<".", "m", "p", "4">>, <<".", "a", "v", "i">>,
     <<".", "m", "o", "v">>, <<".", "w", "m", "v">>, <<".", "m", "4", "v">>,
     <<".", "w", "e", "b", "m">>}
IsVideo(path) == \E suffix \in VideoSuffixes : EndsWith(ToLower(path), suffix)
\* RealDebrid.isVideoFile
RDVideoExtensions ==
    {<<".", "m", "p", "4">>, <<".", "m", "k", "v">>, <<".", "a", "v", "i">>,
     <<".", "m", "o", "v">>, <<".", "w", "m", "v">>, <<".", "w", "e", "b", "m">>,
     <<".", "m", "4", "v">>, <<".", "t", "s">>, <<".", "m", "2", "t", "s">>}
IsVideoFile(filename) == \E ext \in RDVideoExtensions : EndsWith(ToLower(filename), ext)

\* A file size is held in units of 1024 bytes: sizeMB = size / (1024 * 1024)
\* exceeds t exactly when the size in these units exceeds 1024 * t.
MB(n) == n * 1024
SizeMBOver(size, t) == size > MB(t)

\* an entry of data.content as Premiumize.getFileList maps it
FileOf(content) ==
    [path |-> content.path, size |-> content.size, isVideo |-> IsVideo(content.path),
     extension |-> ToLower(LastPart(content.path, "."))]
PremiumizeFiles(contents) == [i \in 1..Len(contents) |-> FileOf(contents[i])]
\* a file of a RealDebrid torrent
RDFileOf(content) == [path |-> content.path, bytes |-> content.size]
\* torrent.files.filter(file => ... this.isVideoFile(file.path))
RDVideoFiles(contents) ==
    LET files == [i \in 1..Len(contents) |-> RDFileOf(contents[i])]
    IN SelectSeq(files, LAMBDA f : IsVideoFile(f.path))

\* null
NoFile == [path |-> << >>]

SizeBonus(size) ==
    (IF SizeMBOver(size, 500) THEN 300 ELSE 0) + (IF SizeMBOver(size, 1000) THEN 200 ELSE 0)
    + (IF SizeMBOver(size, 2000) THEN 150 ELSE 0) + (IF SizeMBOver(size, 5000) THEN 100 ELSE 0)
HasBadKeyword(path) == \E kw \in BadKeywords : Includes(ToLower(path), kw)

\* (variant: a penalty of 300 for extras)
ScoreMovieFileSmallPenalty(file) ==
    100 + SizeBonus(file.size)
    - (IF HasBadKeyword(file.path) THEN 300 ELSE 0)
    + (IF file.extension = <<"m", "k", "v">> THEN 50 ELSE 0)
    + (IF file.extension = <<"m", "p", "4">> THEN 40 ELSE 0)
    + (IF SplitLength(file.path, "/") <= 2 THEN 100 ELSE 0)
\* Premiumize.scoreMovieFile
ScoreMovieFile(file) ==
    100 + SizeBonus(file.size)
    - (IF HasBadKeyword(file.path) THEN 800 ELSE 0)
    + (IF file.extension = <<"m", "k", "v">> THEN 50 ELSE 0)
    + (IF file.extension = <<"m", "p", "4">> THEN 40 ELSE 0)
    + (IF SplitLength(file.path, "/") <= 2 THEN 100 ELSE 0)
\* RealDebrid.scoreMovieFile
RDScoreMovieFile(file) ==
    100 + SizeBonus(file.bytes)
    - (IF HasBadKeyword(file.path) THEN 800 ELSE 0)
    + (IF SplitLength(file.path, "/") <= 2 THEN 100 ELSE 0)

\* scored.sort((a, b) => b.score - a.score)
ByScore(scored) ==
    StableSort(scored, [j \in 1..Len(scored) |->
                           [i \in 1..Len(scored) |-> scored[i].score - scored[j].score]])
\* Premiumize.findBestMovieFile up to the sort
ScoredMovieFiles(files) ==
    LET videoFiles == SelectSeq(files, LAMBDA f : f.isVideo)
    IN ByScore([i \in 1..Len(videoFiles) |->
                   [path |-> videoFiles[i].path, size |-> videoFiles[i].size,
                    isVideo |-> videoFiles[i].isVideo,
                    extension |-> videoFiles[i].extension,
                    score |-> ScoreMovieFile(videoFiles[i])]])
\* (variant: the last of the sorted files is returned)
FindBestMovieFileLast(files) ==
    LET scored == ScoredMovieFiles(files)
    IN IF scored = << >> THEN NoFile ELSE scored[Len(scored)]
\* Premiumize.findBestMovieFile
FindBestMovieFile(files) ==
    LET scored == ScoredMovieFiles(files)
    IN IF scored = << >> THEN NoFile ELSE scored[1]
\* RealDebrid.findBestMovieFile up to the sort, and its result scored[0]
RDScoredMovieFiles(files) ==
    ByScore([i \in 1..Len(files) |->
                [path |-> files[i].path, bytes |-> files[i].bytes,
                 score |-> RDScoreMovieFile(files[i])]])
RDFindBestMovieFile(files) == RDScoredMovieFiles(files)[1]

\* episodePatterns of findEpisodeFile, in the array's order
EpisodePatterns(targetSeason, targetEpisode) ==
    LET s == NumToString(targetSeason)
        e == NumToString(targetEpisode)
    IN << Lit(<<"s">> \o PadStart2(s)) \o <<Opt({".", "-", " "})>>
              \o Lit(<<"e">> \o PadStart2(e)) \o <<One(NonDigit)>>,
          Lit(<<"s">> \o s \o <<"e">> \o e),
          Lit(WordSeason) \o <<Star(Space)>> \o Lit(s) \o <<Star(AnyChar)>>
              \o Lit(WordEpisode) \o <<Star(Space)>> \o Lit(e),
          Lit(s \o <<"x">> \o PadStart2(e)),
          <<One(NonDigit)>> \o Lit(s \o PadStart2(e)) \o <<One(NonDigit)>> >>
\* loosePatterns
LoosePatterns(targetSeason, targetEpisode) ==
    LET s == NumToString(targetSeason)
        e == NumToString(targetEpisode)
    IN << Lit(<<"s">> \o PadStart2(s)) \o <<Star(AnyChar)>> \o Lit(<<"e">> \o PadStart2(e)),
          Lit(WordSeason) \o <<Star(AnyChar)>> \o Lit(s) \o <<Star(AnyChar)>>
              \o Lit(WordEpisode) \o <<Star(AnyChar)>> \o Lit(e) >>
\* seasonPattern: season\s*N | sNN
SeasonPatterns(targetSeason) ==
    LET s == NumToString(targetSeason)
    IN << Lit(WordSeason) \o <<Star(Space)>> \o Lit(s), Lit(<<"s">> \o PadStart2(s)) >>

TestAny(patterns, str) == \E k \in 1..Len(patterns) : Test(patterns[k], str)
\* (variant: no file counts as a sample)
IsSampleNever(filename) == FALSE
\* /sample|trailer/i
IsSample(filename) == Includes(filename, WordSample) \/ Includes(filename, WordTrailer)

ExactMatch(file, targetSeason, targetEpisode) ==
    TestAny(EpisodePatterns(targetSeason, targetEpisode), ToLower(file.path))
LooseMatch(file, targetSeason, targetEpisode) ==
    /\ ~IsSample(ToLower(file.path))
    /\ TestAny(LoosePatterns(targetSeason, targetEpisode), ToLower(file.path))
SeasonMatch(file, targetSeason) ==
    /\ TestAny(SeasonPatterns(targetSeason), ToLower(file.path))
    /\ ~IsSample(ToLower(file.path))

\* seasonPackFiles.reduce((largest, file) => file.size > largest.size ? file : largest),
\* on the sizes of a non-empty array
RECURSIVE LargestFrom(_, _, _)
LargestFrom(sizes, i, largest) ==
    IF i > Len(sizes) THEN largest
    ELSE LargestFrom(sizes, i + 1, IF sizes[i] > sizes[largest] THEN i ELSE largest)
Largest(sizes) == LargestFrom(sizes, 2, 1)

\* the three passes of findEpisodeFile over the array it searches
EpisodePasses(searched, sizes, targetSeason, targetEpisode) ==
    LET exact == SelectSeq(searched, LAMBDA f : ExactMatch(f, targetSeason, targetEpisode))
        loose == SelectSeq(searched, LAMBDA f : LooseMatch(f, targetSeason, targetEpisode))
        at == SelectSeq([i \in 1..Len(searched) |-> i],
                        LAMBDA i : SeasonMatch(searched[i], targetSeason))
    IN IF exact # << >> THEN exact[1]
       ELSE IF loose # << >> THEN loose[1]
       ELSE IF at # << >> THEN searched[at[Largest([k \in 1..Len(at) |-> sizes[at[k]]])]]
       ELSE NoFile
\* (variant: each file is tried against all three kinds of pattern in turn)
RECURSIVE EpisodePerFile(_, _, _, _)
EpisodePerFile(searched, i, targetSeason, targetEpisode) ==
    IF i > Len(searched) THEN NoFile
    ELSE IF \/ ExactMatch(searched[i], targetSeason, targetEpisode)
            \/ LooseMatch(searched[i], targetSeason, targetEpisode)
            \/ SeasonMatch(searched[i], targetSeason)
         THEN searched[i]
         ELSE EpisodePerFile(searched, i + 1, targetSeason, targetEpisode)
FindEpisodeFilePerFile(files, targetSeason, targetEpisode) ==
    EpisodePerFile(SelectSeq(files, LAMBDA f : f.isVideo), 1, targetSeason, targetEpisode)
\* Premiumize.findEpisodeFile
FindEpisodeFile(files, targetSeason, targetEpisode) ==
    LET videoFiles == SelectSeq(files, LAMBDA f : f.isVideo)
    IN EpisodePasses(videoFiles, [i \in 1..Len(videoFiles) |-> videoFiles[i].size],
                     targetSeason, targetEpisode)
\* RealDebrid.findEpisodeFile
RDFindEpisodeFile(files, targetSeason, targetEpisode) ==
    EpisodePasses(files, [i \in 1..Len(files) |-> files[i].bytes],
                  targetSeason, targetEpisode)

\* the file lists the selectors are run on
WordShow == <<"S", "h", "o", "w">>
WordMovie == <<"m", "o", "v", "i", "e">>
ExtMkv == <<".", "m", "k", "v">>
Content(path, size) == [path |-> path, size |-> size]
MovieSizes == {MB(500), MB(500) + 1, MB(1000) + 1, MB(2000) + 1, MB(5000) + 1}
MoviePlaces ==
    {[dir |-> << >>, ext |-> ExtMkv, sizes |-> MovieSizes],
     [dir |-> <<"a", "/">>, ext |-> <<".", "m", "p", "4">>,
      sizes |-> {MB(500) + 1, MB(5000) + 1}],
     [dir |-> <<"a", "/", "b", "/">>, ext |-> <<".", "a", "v", "i">>,
      sizes |-> {MB(500) + 1, MB(2000) + 1}]}
MovieContents ==
    UNION {{Content(pl.dir \o base \o pl.ext, size) :
                base \in {WordMovie, WordMovie \o <<".">> \o WordSample},
                size \in pl.sizes} : pl \in MoviePlaces}
    \cup {Content(WordMovie \o <<".", "n", "f", "o">>, 1),
          Content(<<"f", "i", "l", "m">> \o ExtMkv, MB(500) + 1)}
MovieInputs ==
    {s \in SeqsUpTo(MovieContents, MaxFiles) : \A i, j \in 1..Len(s) : i # j => s[i] # s[j]}

\* Show.S02E05.mkv (padded) or Show.S2E5.mkv
EpisodePath(season, episode, padded) ==
    LET s == IF padded THEN PadStart2(NumToString(season)) ELSE NumToString(season)
        e == IF padded THEN PadStart2(NumToString(episode)) ELSE NumToString(episode)
    IN WordShow \o <<".", "S">> \o s \o <<"E">> \o e \o ExtMkv
Markers == {<<1, 1>>, <<1, 10>>, <<2, 5>>, <<2, 6>>}
EpisodeContents ==
    {Content(EpisodePath(m[1], m[2], padded), MB(700)) : m \in Markers, padded \in BOOLEAN}
\* Show.Season.3.complete.mkv, Show.Season.3.sample.mkv, Show.S03.complete.mkv,
\* Show.Season 3.complete.mkv
SeasonDots == WordShow \o <<".", "S", "e", "a", "s", "o", "n", ".", "3", ".">>
WordComplete == <<"c", "o", "m", "p", "l", "e", "t", "e">>
SeasonExample == Content(SeasonDots \o WordComplete \o ExtMkv, MB(8000))
SeasonExampleSample == Content(SeasonDots \o WordSample \o ExtMkv, MB(10))
SeasonS03 == Content(WordShow \o <<".", "S", "0", "3", ".">> \o WordComplete \o ExtMkv, MB(8000))
SeasonSpace ==
    Content(WordShow \o <<".", "S", "e", "a", "s", "o", "n", " ", "3", ".">>
                \o WordComplete \o ExtMkv, MB(4000))
\* Show.S02.disc.E05.mkv
LooseOnly ==
    Content(WordShow \o <<".", "S", "0", "2", ".", "d", "i", "s", "c", ".", "E", "0", "5">>
                \o ExtMkv, MB(700))
\* Show.S02E05.srt
Subtitle ==
    Content(WordShow \o <<".", "S", "0", "2", "E", "0", "5", ".", "s", "r", "t">>, 1)
\* Show.S02E05.sample.mkv
ExactSample ==
    Content(WordShow \o <<".", "S", "0", "2", "E", "0", "5", ".">> \o WordSample \o ExtMkv,
            MB(10))
\* Show.S03.sample.mkv, larger than the packs
SeasonSample ==
    Content(WordShow \o <<".", "S", "0", "3", ".">> \o WordSample \o ExtMkv, MB(9000))
EpisodeFileContents ==
    EpisodeContents
    \cup {SeasonExample, SeasonExampleSample, SeasonS03, SeasonSpace, LooseOnly, Subtitle,
          ExactSample, SeasonSample}
EpisodeInputs ==
    {s \in SeqsUpTo(EpisodeFileContents, MaxFiles) :
        \A i, j \in 1..Len(s) : i # j => s[i] # s[j]}
Targets == {<<1, 1>>, <<2, 5>>, <<3, 9>>}

\* ------------------------------------------------ token round trip (pure)
\* The content key and the request parameters as the strings they are.
WordSeries == <<"s", "e", "r", "i", "e", "s">>
StartsWith(str, word) == Len(word) <= Len(str) /\ SubSeq(str, 1, Len(word)) = word
\* cacheKey = `${type}-${tmdbId}${season ? `-s${season}e${episode}` : ''}`;
\* season and episode are the strings split from the id, << >> when absent
CacheKeyString(type, tmdbId, season, episode) ==
    type \o <<"-">> \o tmdbId
    \o (IF season # << >> THEN <<"-", "s">> \o season \o <<"e">> \o episode ELSE << >>)

\* base64Encode / base64Decode of util.js and JSON.stringify / JSON.parse of
\* the {magnetLink, cacheKey} object
Base64Encode(text) == [base64 |-> text]
Base64Decode(data) == data.base64
JsonStringify(object) == [json |-> object]
JsonParse(text) == text.json
\* encodedData of a formatted stream
EncodedData(magnet, key) ==
    Base64Encode(JsonStringify([magnetLink |-> magnet, cacheKey |-> key]))

\* the longest run of digits of str that starts at position i
RECURSIVE DigitRun(_, _)
DigitRun(str, i) ==
    IF i <= Len(str) /\ str[i] \in DigitSet THEN <<str[i]>> \o DigitRun(str, i + 1) ELSE << >>
\* parseInt of a run of digits
RECURSIVE ParseDigits(_, _, _)
ParseDigits(run, i, value) ==
    IF i > Len(run) THEN value
    ELSE ParseDigits(run, i + 1,
                     10 * value + (CHOOSE d \in 0..9 : DigitChars[d + 1] = run[i]))
ParseIntOf(run) == ParseDigits(run, 1, 0)

\* cacheKey.match(/series-.*-s(\d+)e(\d+)/i) on a key that starts with
\* 'series-': the two captured groups, << >> for null.  .* is greedy, so the
\* marker taken is the last one in the key; each \d+ takes its whole run.
SeriesParts(key) ==
    LET lower == ToLower(key)
        seasonAt(p) == DigitRun(lower, p + 2)
        episodeAt(p) == DigitRun(lower, p + 3 + Len(seasonAt(p)))
        markers == {p \in (Len(WordSeries) + 2)..Len(lower) :
                       /\ lower[p] = "-"
                       /\ p + 1 <= Len(lower) /\ lower[p + 1] = "s"
                       /\ seasonAt(p) # << >>
                       /\ p + 2 + Len(seasonAt(p)) <= Len(lower)
                       /\ lower[p + 2 + Len(seasonAt(p))] = "e"
                       /\ episodeAt(p) # << >>}
        last == CHOOSE p \in markers : \A r \in markers : r <= p
    IN IF markers = {} THEN << >> ELSE <<seasonAt(last), episodeAt(last)>>

\* a number or null: <<n>> or << >>
Num(n) == <<n>>
Null == << >>
\* the truth value JavaScript gives a number or null
Truthy(v) == v # Null /\ v[1] # 0

\* contentType, season and episode as the resolver sets them from the key
MovieContent == [contentType |-> "movie", season |-> Null, episode |-> Null]
ContentOfKey(key) ==
    IF StartsWith(key, WordSeries \o <<"-">>)
    THEN LET parts == SeriesParts(key)
         IN IF parts # << >>
            THEN [contentType |-> "series", season |-> Num(ParseIntOf(parts[1])),
                  episode |-> Num(ParseIntOf(parts[2]))]
            ELSE MovieContent
    ELSE MovieContent

\* what the adapter of a provider is called with: getStreamUrl(magnetLink,
\* type, season, episode) of Premiumize (type 'movie' and nulls when the
\* short call is used), getCachedUrl(magnetLink, type, season, episode) of
\* RealDebrid, getStreamUrl(magnetLink) of TorBox
AdapterCall(serviceName, magnet, content) ==
    CASE serviceName = "Premiumize" ->
            IF content.contentType = "series" /\ Truthy(content.season)
               /\ Truthy(content.episode)
            THEN [service |-> serviceName, magnetLink |-> magnet,
                  type |-> content.contentType, season |-> content.season,
                  episode |-> content.episode]
            ELSE [service |-> serviceName, magnetLink |-> magnet,
                  type |-> "movie", season |-> Null, episode |-> Null]
      [] serviceName = "RealDebrid" ->
            [service |-> serviceName, magnetLink |-> magnet,
             type |-> content.contentType, season |-> content.season,
             episode |-> content.episode]
      [] OTHER ->
            [service |-> serviceName, magnetLink |-> magnet,
             type |-> "none", season |-> Null, episode |-> Null]

\* the stream requests the round trip is run on: type, id, season, episode
IdTt == <<"t", "t", "2">>
IdTmdb == <<"t", "m", "d", "b", "-", "7">>
StreamParams ==
    {[type |-> WordMovie, id |-> id, season |-> << >>, episode |-> << >>] :
        id \in {IdTt, IdTmdb}}
    \cup {[type |-> WordSeries, id |-> IdTt, season |-> s, episode |-> e] :
            s \in {<<"1">>, <<"0">>, <<"0", "1">>, <<"1", "2">>},
            e \in {<<"5">>, <<"0">>, <<"1", "0">>}}

\* ------------------------------------------------ RealDebrid.getCachedUrl
RDStatuses ==
    {"downloaded", "dead", "downloading", "uploading", "queued", "waiting_files_selection",
     "magnet_error", "compressing"}
StatusWaitingSelection(status) == status = "waiting_files_selection"
StatusDownloading(status) == status \in {"downloading", "uploading", "queued"}
\* (variant: a torrent that is still downloading counts as ready)
StatusReadyLoose(status) == status \in {"downloaded", "dead", "downloading"}
StatusReady(status) == status \in {"downloaded", "dead"}

\* undefined
NoLink == << >>
LinkOf(i) == <<"link", i>>
\* torrent.files of /torrents/info: every element is one object, named by ref
RDTorrentFiles(contents, selected) ==
    [i \in 1..Len(contents) |->
        [id |-> i, path |-> contents[i].path, bytes |-> contents[i].size,
         selected |-> IF i \in selected THEN 1 ELSE 0, ref |-> <<"files", i>>]]
\* torrent.links: a slot per file, or the links of the selected files only
RDLinks(files, layout) ==
    IF layout = "byIndex"
    THEN [i \in 1..Len(files) |-> IF files[i].selected = 1 THEN LinkOf(i) ELSE NoLink]
    ELSE LET sel == SelectSeq([i \in 1..Len(files) |-> i], LAMBDA i : files[i].selected = 1)
         IN [k \in 1..Len(sel) |-> LinkOf(sel[k])]
RDTorrent(status, files, layout) ==
    [status |-> status, files |-> files, links |-> RDLinks(files, layout)]
\* Array.prototype.indexOf compares object references; 0 stands for -1
IndexOf(array, obj) ==
    IF \E i \in 1..Len(array) : array[i].ref = obj.ref
    THEN CHOOSE i \in 1..Len(array) :
            array[i].ref = obj.ref /\ \A j \in 1..(i - 1) : array[j].ref # obj.ref
    ELSE 0
\* scored[0] of RealDebrid.findBestMovieFile: the map step builds new objects
\* ({...file, score}), so the result has the fields of the best file and is
\* no element of the array passed in
RDBestMovieObject(files) ==
    LET best == RDFindBestMovieFile(files)
        from == CHOOSE i \in 1..Len(files) :
                    /\ files[i].path = best.path /\ files[i].bytes = best.bytes
                    /\ \A j \in 1..(i - 1) :
                          files[j].path # best.path \/ files[j].bytes # best.bytes
    IN [files[from] EXCEPT !.ref = <<"scored", 1>>]
\* files.reduce((largest, current) => current.bytes > largest.bytes ? current : largest)
RDLargestFile(files) == files[Largest([i \in 1..Len(files) |-> files[i].bytes])]
\* targetFile of unrestrictLink
RDTargetFile(selectedVideoFiles, req) ==
    IF req.type = "movie" THEN RDBestMovieObject(selectedVideoFiles)
    ELSE IF req.type = "series" /\ Truthy(req.season) /\ Truthy(req.episode)
    THEN LET found == RDFindEpisodeFile(selectedVideoFiles, req.season[1], req.episode[1])
         IN IF found = NoFile THEN RDLargestFile(selectedVideoFiles) ELSE found
    ELSE RDLargestFile(selectedVideoFiles)
\* unrestrictLink up to its request: the error thrown, or the link posted
UnrestrictPlan(torrent, req) ==
    LET selectedVideoFiles ==
            SelectSeq(torrent.files, LAMBDA f : f.selected = 1 /\ IsVideoFile(f.path))
    IN IF selectedVideoFiles = << >>
       THEN [kind |-> "throw", error |-> "No selected video files found", link |-> NoLink]
       ELSE LET targetFile == RDTargetFile(selectedVideoFiles, req)
                fileIndex == IndexOf(torrent.files, targetFile)
                downloadLink == IF fileIndex \in 1..Len(torrent.links)
                                THEN torrent.links[fileIndex] ELSE NoLink
            IN IF downloadLink = NoLink
               THEN [kind |-> "throw", link |-> NoLink,
                     error |-> "No download link available for selected file"]
               ELSE [kind |-> "request", error |-> "", link |-> downloadLink]
\* selectTorrentFiles up to its request: the error thrown, or the ids posted
SelectPlan(torrent, req) ==
    LET videoFiles ==
            SelectSeq(torrent.files, LAMBDA f : IsVideoFile(f.path) /\ SizeMBOver(f.bytes, 5))
        ids == [i \in 1..Len(videoFiles) |-> videoFiles[i].id]
    IN IF videoFiles = << >>
       THEN [kind |-> "throw", error |-> "No video files found", fileIds |-> << >>]
       ELSE IF req.type = "movie"
       THEN [kind |-> "request", error |-> "",
             fileIds |-> <<RDBestMovieObject(videoFiles).id>>]
       ELSE IF req.type = "series" /\ Truthy(req.season) /\ Truthy(req.episode)
       THEN LET episodeFile == RDFindEpisodeFile(videoFiles, req.season[1], req.episode[1])
            IN IF episodeFile = NoFile
               THEN [kind |-> "throw", error |-> "Episode not found in torrent",
                     fileIds |-> << >>]
               ELSE [kind |-> "request", error |-> "", fileIds |-> <<episodeFile.id>>]
       ELSE [kind |-> "request", error |-> "", fileIds |-> ids]

\* the torrents and requests getCachedUrl is run on
RDContents ==
    {<<Content(WordMovie \o <<".">> \o WordSample \o ExtMkv, MB(10)),
       Content(WordMovie \o ExtMkv, MB(2000) + 1),
       Content(WordMovie \o <<".", "n", "f", "o">>, 1)>>,
     <<Content(EpisodePath(2, 5, TRUE), MB(700)),
       Content(EpisodePath(2, 6, TRUE), MB(700) + 1)>>,
     <<Content(WordMovie \o <<".", "n", "f", "o">>, 1)>>,
     <<Content(WordMovie \o ExtMkv, MB(5))>>}
RDRequests ==
    {[type |-> "movie", season |-> Null, episode |-> Null],
     [type |-> "series", season |-> Num(2), episode |-> Num(5)],
     [type |-> "series", season |-> Num(0), episode |-> Num(5)]}
NoRDRequest == [type |-> "", season |-> Null, episode |-> Null]
NoTorrent == [status |-> "", files |-> << >>, links |-> << >>]

\* ------------------------------------------------ file-list memoization
\* Date.now() is read in steps of ten minutes
ClockStep == 600000
ApiKeys == {"pr=alice", "pr=bob"}
InfoHashes == {"AAAA", "BBBB"}
FileCallIds == 1..3
\* (variant: one key for every torrent)
FileCacheKeyShared(infoHash) == <<"files", "">>
\* cacheKey = `files:${infoHash}`
FileCacheKey(infoHash) == <<"files", infoHash>>
FileCacheKeys == {FileCacheKey(h) : h \in InfoHashes}
\* the file list /transfer/directdl answers with: the links in it belong to
\* the account of the API key that asked, at the time it asked
DirectDL(apiKey, infoHash, now) == [infoHash |-> infoHash, apiKey |-> apiKey, at |-> now]
NoList == [infoHash |-> "", apiKey |-> "", at |-> 0]
\* fileCache.has(cacheKey) is false
NoEntry == [data |-> NoList, timestamp |-> 0, has |-> FALSE]
\* (variant: an entry of exactly 30 minutes is still used)
FreshInclusive(cached, now) == now - cached.timestamp <= CACHE_TTL
\* Date.now() - cached.timestamp < CACHE_TTL
Fresh(cached, now) == now - cached.timestamp < CACHE_TTL
IdleCall ==
    [pc |-> "idle", apiKey |-> "", infoHash |-> "", result |-> NoList, hit |-> FALSE,
     expired |-> FALSE, requests |-> 0, error |-> "none"]


VARIABLES
    streamCache,      \* content key -> stored fallback list, or Absent
    pc,               \* "idle" | "primary" | "fallback" | "done"
    debridServices,   \* providers of the request, in configured order
    encodedData,      \* the request's token
    magnetLink,       \* decoded primary magnet link
    cacheKey,         \* decoded content key, NoKey when the token has none
    hash,             \* lower-cased primary info-hash
    svc,              \* index of the provider whose call is in flight
    sortedFallbacks,  \* the alternates of this request, once read
    fb,               \* index of the alternate being tried
    attempts,         \* provider calls made so far: <<magnet link, provider>>
    response,         \* what was sent: kind "none" | "redirect" | "404"
    responses,        \* number of responses sent for the request
    cacheReads,       \* streamCache.has / get calls made by the request
    gpc,              \* getStreams: "idle" | "waiting" | "done"
    query,            \* getStreams arguments: type, id, season, episode
    bstate,           \* per backend: "idle" | "fetching" | "reading" | "ok" | "failed" | "timeout"
    bvalue,           \* per backend: the array its promise fulfilled with
    late,             \* per backend: its response came after its 8s timer fired
    result,           \* the array getStreams returned
    escaped,          \* an exception left getStreams
    cause,            \* how the call ended: "none" | "input" | "combined" | "timeout"
    spc,              \* stream endpoint: "idle" | "searching" | "probing" | "done"
    sServices,        \* providers of the stream request, in configured order
    sQuery,           \* type, id, season, episode of the stream request
    newStreams,       \* what getStreams returned to the endpoint
    limitedStreams,   \* the candidates selected for cache probing
    probe,            \* per provider's cache check: "idle" | "pending", or how it
                      \* ended: "answered" | "threw" | "timeout"
    probeValue,       \* per provider: what its cacheCheckPromise fulfilled with
    probedWith,       \* per provider: the candidates its cache check was handed
    timers,           \* the armed timers of the request
    successfulServices, \* the endpoint's counter of successful providers
    sResponse,        \* status 0 (none) | 200 | 500, and the stream list sent
    sResponses,       \* number of responses sent for the stream request
    immediate,        \* the deferred Stream Cache write, once scheduled
    sQueries,         \* backend queries the request's getStreams call issued
    sWrites,          \* Stream Cache writes made for the request
    cpc,              \* Premiumize.checkCacheStatuses: "idle" | "request" | "done"
    cHashes,          \* its argument: the array of hashes
    cBatch,           \* index of the batch whose request is in flight
    cTry,             \* makeRequest: attempts of the current request that failed
    cCalls,           \* cache-check requests sent: batch index and hashes carried
    cResults,         \* results accumulated so far: hash -> cached value
    cReturned,        \* the mapping the call returned
    cFailed,          \* a request attempt failed during the call
    rA,               \* ranking: a list of formatted streams
    rB,               \* ranking: a permutation of rA
    rOutA,            \* the final ranking of rA
    rOutB,            \* the final ranking of rB
    tIn,              \* triage: the list getStreams returned
    tHanded,          \* triage: per provider, the candidates handed to its cache check
    mpc,              \* movie file selection: "idle" | "done"
    mFiles,           \* the torrent's file list (path and size of each entry)
    mScored,          \* Premiumize: the scored video files after the sort
    mBest,            \* Premiumize: the file findBestMovieFile returned, or NoFile
    mRDScored,        \* RealDebrid: the scored files after the sort
    mRDBest,          \* RealDebrid: the file findBestMovieFile returned
    epc,              \* episode file selection: "idle" | "done"
    eFiles,           \* the torrent's file list
    eTarget,          \* <<targetSeason, targetEpisode>>
    eFound,           \* Premiumize: the file findEpisodeFile returned, or NoFile
    eRDFound,         \* RealDebrid: the file findEpisodeFile returned, or NoFile
    entries,          \* cleanup: the Stream Cache's entries in insertion order
    nextKey,          \* cleanup: the next content key not requested so far
    tickKind,         \* cleanup: the last tick: "none" | "skipped" | "evicted"
    tickBefore,       \* cleanup: the entries the last evicting tick found
    wList,            \* per concurrent stream request: its cachedStreamsForFallback
    wQueue,           \* the pending setImmediate callbacks, oldest first
    wWritten,         \* the requests whose deferred write has run, in order
    wRead,            \* what the resolve request's read of the key returned
    kpc,              \* token round trip: "idle" | "formatted" | "resolved"
    kParams,          \* type, id, season, episode of the stream request
    kMagnet,          \* the magnet link of the formatted stream
    kCacheKey,        \* the stream request's cacheKey
    kEncoded,         \* encodedData in the stream's url
    kDecoded,         \* the resolver's decodedData
    kContent,         \* the resolver's contentType, season, episode
    kCalls,           \* the adapter calls the resolver made, in order
    fileCache,        \* premiumize.js: the module's fileCache, per cacheKey
    fClock,           \* Date.now()
    fCalls,           \* the getFileList calls: position, arguments, outcome
    dpc,              \* RealDebrid.getCachedUrl: the await it is suspended at
    dReq,             \* its type, season and episode
    dRemote,          \* the torrent at the provider: contents, selection, links
    dTorrent,         \* the torrent object of the last /torrents/info answer
    dSeen,            \* the statuses observed, in order
    dCalls,           \* the provider requests made, in order
    dResult,          \* what the call returned or threw
    qpc,              \* Premiumize.makeRequest: "idle" | "fetching" | "waiting" | ...
    qMethod,          \* its method
    qI,               \* the loop variable i
    qErrors,          \* the errors caught, in order
    qFetches,         \* the number of fetch calls made
    qWaits,           \* the number of 2s waits started
    qResult,          \* the data returned or the error thrown
    \* --- the deferred write and the event loop
    oPhase,           \* the phase of the event loop: "timers", "poll" or "check"
    oStream,          \* per stream request: where it is, its key and its fallback list
    oImmediate,       \* the callbacks handed to setImmediate, oldest first
    oDelivered,       \* the stream requests whose response the client has received
    oResolve          \* the resolve request: where it is, its token, what it read

resolveVars == <<pc, debridServices, encodedData, magnetLink, cacheKey, hash, svc,
                 sortedFallbacks, fb, attempts, response, responses, cacheReads>>
searchVars == <<gpc, query, bstate, bvalue, late, result, escaped, cause>>
streamVars == <<spc, sServices, sQuery, newStreams, limitedStreams, probe, probeValue,
                probedWith, timers, successfulServices, sResponse, sResponses, immediate,
                sQueries, sWrites>>
batchVars == <<cpc, cHashes, cBatch, cTry, cCalls, cResults, cReturned, cFailed>>
rankVars == <<rA, rB, rOutA, rOutB, tIn, tHanded>>
movieVars == <<mpc, mFiles, mScored, mBest, mRDScored, mRDBest>>
episodeVars == <<epc, eFiles, eTarget, eFound, eRDFound>>
cleanupVars == <<entries, nextKey, tickKind, tickBefore>>
writerVars == <<wList, wQueue, wWritten, wRead>>
tokenVars == <<kpc, kParams, kMagnet, kCacheKey, kEncoded, kDecoded, kContent, kCalls>>
fileVars == <<fileCache, fClock, fCalls>>
rdVars == <<dpc, dReq, dRemote, dTorrent, dSeen, dCalls, dResult>>
retryVars == <<qpc, qMethod, qI, qErrors, qFetches, qWaits, qResult>>
orderVars == <<oPhase, oStream, oImmediate, oDelivered, oResolve>>
adapterVars == <<fileVars, rdVars, retryVars, orderVars>>
vars == <<streamCache, resolveVars, searchVars, streamVars, batchVars, rankVars, movieVars,
          episodeVars, cleanupVars, writerVars, tokenVars, adapterVars>>

NoResponse == [kind |-> "none", url |-> NoUrl]
NoStreamResponse == [status |-> 0, streams |-> << >>]
NoImmediate == [key |-> NoKey, list |-> << >>]
NotFound == [kind |-> "404", url |-> NoUrl]

Init ==
    /\ streamCache = [k \in CacheKeys |-> Absent]
    /\ pc = "idle"
    /\ debridServices = << >>
    /\ encodedData = [json |-> FALSE, magnetLink |-> NoBtihMagnet, cacheKey |-> NoKey]
    /\ magnetLink = NoMagnet
    /\ cacheKey = NoKey
    /\ hash = NoHash
    /\ svc = 0
    /\ sortedFallbacks = << >>
    /\ fb = 0
    /\ attempts = << >>
    /\ response = NoResponse
    /\ responses = 0
    /\ cacheReads = 0
    /\ gpc = "idle"
    /\ query = NoQuery
    /\ bstate = [b \in Backends |-> "idle"]
    /\ bvalue = [b \in Backends |-> << >>]
    /\ late = [b \in Backends |-> FALSE]
    /\ result = << >>
    /\ escaped = FALSE
    /\ cause = "none"
    /\ spc = "idle"
    /\ sServices = << >>
    /\ sQuery = NoQuery
    /\ newStreams = << >>
    /\ limitedStreams = << >>
    /\ probe = [p \in Providers |-> "idle"]
    /\ probeValue = [p \in Providers |-> NoProbe]
    /\ probedWith = [p \in Providers |-> << >>]
    /\ timers = {}
    /\ successfulServices = 0
    /\ sResponse = NoStreamResponse
    /\ sResponses = 0
    /\ immediate = NoImmediate
    /\ sQueries = 0
    /\ sWrites = 0
    /\ cpc = "idle"
    /\ cHashes = << >>
    /\ cBatch = 0
    /\ cTry = 0
    /\ cCalls = << >>
    /\ cResults = << >>
    /\ cReturned = << >>
    /\ cFailed = FALSE
    /\ rA = << >>
    /\ rB = << >>
    /\ rOutA = << >>
    /\ rOutB = << >>
    /\ tIn = << >>
    /\ tHanded = [p \in Providers |-> << >>]
    /\ mpc = "idle"
    /\ mFiles = << >>
    /\ mScored = << >>
    /\ mBest = NoFile
    /\ mRDScored = << >>
    /\ mRDBest = NoFile
    /\ epc = "idle"
    /\ eFiles = << >>
    /\ eTarget = <<0, 0>>
    /\ eFound = NoFile
    /\ eRDFound = NoFile
    /\ entries = << >>
    /\ nextKey = 1
    /\ tickKind = "none"
    /\ tickBefore = << >>
    /\ wList = [w \in {"A", "B"} |-> << >>]
    /\ wQueue = << >>
    /\ wWritten = << >>
    /\ wRead = [done |-> FALSE, after |-> 0, cachedStreams |-> Absent]
    /\ kpc = "idle"
    /\ kParams = [type |-> << >>, id |-> << >>, season |-> << >>, episode |-> << >>]
    /\ kMagnet = NoMagnet
    /\ kCacheKey = << >>
    /\ kEncoded = EncodedData(NoMagnet, << >>)
    /\ kDecoded = [magnetLink |-> NoMagnet, cacheKey |-> << >>]
    /\ kContent = MovieContent
    /\ kCalls = << >>
    /\ fileCache = [k \in FileCacheKeys |-> NoEntry]
    /\ fClock = 0
    /\ fCalls = [c \in FileCallIds |-> IdleCall]
    /\ dpc = "idle"
    /\ dReq = NoRDRequest
    /\ dRemote = [contents |-> << >>, selected |-> {}, layout |-> "byIndex"]
    /\ dTorrent = NoTorrent
    /\ dSeen = << >>
    /\ dCalls = << >>
    /\ dResult = [kind |-> "none", value |-> << >>]
    /\ qpc = "idle"
    /\ qMethod = ""
    /\ qI = 0
    /\ qErrors = << >>
    /\ qFetches = 0
    /\ qWaits = 0
    /\ qResult = [kind |-> "none", value |-> ""]
    /\ oPhase = "timers"
    /\ oStream = [r \in {"A", "B"} |-> [pc |-> "probing", key |-> NoKey, list |-> << >>]]
    /\ oImmediate = << >>
    /\ oDelivered = {}
    /\ oResolve = [pc |-> "idle", token |-> "", cachedStreams |-> Absent]

\* setImmediate(() => streamCache.set(cacheKey, cachedStreamsForFallback)):
\* the deferred write of a stream request.  One content item is requested per
\* behaviour, so only one key is ever present.
StoreFallback(k, list) ==
    /\ \A k2 \in CacheKeys \ {k} : streamCache[k2] = Absent
    /\ streamCache' = [streamCache EXCEPT ![k] = list]
    /\ UNCHANGED <<resolveVars, searchVars, streamVars, batchVars, rankVars, movieVars, episodeVars, cleanupVars, writerVars, tokenVars, adapterVars>>

\* (variant: the providers are visited last to first)
ServiceAtReversed(i) == debridServices[Len(debridServices) + 1 - i]
\* for (const service of debridServices): the i-th provider the loop visits
ServiceAt(i) == debridServices[i]

\* res.redirect(url) / res.status(404).json(...)
Respond(r) ==
    /\ response' = r
    /\ responses' = responses + 1
    /\ pc' = "done"

\* (variant: the final throw is swallowed and nothing is sent)
ExhaustedNoAnswer == pc' = "done" /\ UNCHANGED <<response, responses>>
\* Step 3: throw new Error('No cached stream available ...'), caught by the
\* handler's catch, which answers 404 'Stream not available'
Exhausted == Respond(NotFound)

\* an exception that escapes a provider attempt reaches the same catch
Aborted == Respond(NotFound)

\* if (cacheKey && streamCache.has(cacheKey))
HasFallback(k) == k # NoKey /\ streamCache[k] # Absent
\* number of Map accesses that test and the following get make
FallbackReads(k) == IF k = NoKey THEN 0 ELSE IF streamCache[k] = Absent THEN 1 ELSE 2

\* The handler up to its first await: decode the token, validate, and issue the
\* first provider call for the primary magnet link.
StartRequest(services, token) ==
    /\ pc \in {"idle", "done"}
    /\ debridServices' = services
    /\ encodedData' = token
    /\ magnetLink' = DecodeMagnet(token)
    /\ cacheKey' = DecodeCacheKey(token)
    /\ hash' = ToLowerCase(ExtractInfoHash(DecodeMagnet(token)))
    /\ sortedFallbacks' = << >>
    /\ fb' = 0
    /\ cacheReads' = 0
    /\ IF services = << >> \/ ExtractInfoHash(DecodeMagnet(token)) = NoHash
       THEN \* throw -> catch -> 404
            /\ response' = NotFound
            /\ responses' = 1
            /\ pc' = "done"
            /\ svc' = 0
            /\ attempts' = << >>
       ELSE /\ response' = NoResponse
            /\ responses' = 0
            /\ pc' = "primary"
            /\ svc' = 1
            /\ attempts' = << <<DecodeMagnet(token), services[1]>> >>
    /\ UNCHANGED <<streamCache, searchVars, streamVars, batchVars, rankVars, movieVars, episodeVars, cleanupVars, writerVars, tokenVars, adapterVars>>

\* After the primary failed on the last provider: Step 2 and Step 3 of the
\* handler, up to the first fallback call or the 404.
AfterPrimary ==
    /\ cacheReads' = cacheReads + FallbackReads(cacheKey)
    /\ IF HasFallback(cacheKey)
       THEN LET sorted == SortedFallbacks(streamCache[cacheKey], hash) IN
            /\ sortedFallbacks' = sorted
            /\ streamCache' = [streamCache EXCEPT
                                  ![cacheKey] = StoredAfterSort(streamCache[cacheKey])]
            /\ IF sorted = << >>
               THEN /\ Exhausted
                    /\ UNCHANGED <<svc, fb, attempts>>
               ELSE /\ pc' = "fallback"
                    /\ fb' = 1
                    /\ svc' = 1
                    /\ attempts' = Append(attempts, <<sorted[1].magnetLink, ServiceAt(1)>>)
                    /\ UNCHANGED <<response, responses>>
       ELSE /\ Exhausted
            /\ UNCHANGED <<svc, fb, attempts, sortedFallbacks, streamCache>>

\* The provider call for the primary magnet link returns or throws.
PrimaryReturns ==
    /\ pc = "primary"
    /\ \E o \in ProviderOutcomes(ServiceAt(svc)) :
         LET r == AttemptResult(ServiceAt(svc), o, magnetLink) IN
         CASE r.kind = "redirect" ->
                /\ Respond(r)
                /\ UNCHANGED <<svc, fb, attempts, sortedFallbacks, cacheReads, streamCache>>
           [] r.kind = "throw" ->
                /\ Aborted
                /\ UNCHANGED <<svc, fb, attempts, sortedFallbacks, cacheReads, streamCache>>
           [] OTHER ->
                IF svc < Len(debridServices)
                THEN /\ svc' = svc + 1
                     /\ attempts' = Append(attempts, <<magnetLink, ServiceAt(svc + 1)>>)
                     /\ UNCHANGED <<pc, fb, sortedFallbacks, response, responses, cacheReads,
                                 streamCache>>
                ELSE AfterPrimary
    /\ UNCHANGED <<debridServices, encodedData, magnetLink, cacheKey, hash,
                   searchVars, streamVars, batchVars, rankVars, movieVars, episodeVars, cleanupVars, writerVars, tokenVars, adapterVars>>

\* The provider call for fallback alternate fb returns or throws.
FallbackReturns ==
    /\ pc = "fallback"
    /\ \E o \in ProviderOutcomes(ServiceAt(svc)) :
         LET r == AttemptResult(ServiceAt(svc), o, sortedFallbacks[fb].magnetLink) IN
         CASE r.kind = "redirect" ->
                /\ Respond(r)
                /\ UNCHANGED <<svc, fb, attempts>>
           [] r.kind = "throw" ->
                /\ Aborted
                /\ UNCHANGED <<svc, fb, attempts>>
           [] OTHER ->
                IF svc < Len(debridServices)
                THEN /\ svc' = svc + 1
                     /\ attempts' = Append(attempts,
                            <<sortedFallbacks[fb].magnetLink, ServiceAt(svc + 1)>>)
                     /\ UNCHANGED <<pc, fb, response, responses>>
                ELSE IF fb < Len(sortedFallbacks)
                THEN /\ fb' = fb + 1
                     /\ svc' = 1
                     /\ attempts' = Append(attempts,
                            <<sortedFallbacks[fb + 1].magnetLink, ServiceAt(1)>>)
                     /\ UNCHANGED <<pc, response, responses>>
                ELSE /\ Exhausted
                     /\ UNCHANGED <<svc, fb, attempts>>
    /\ UNCHANGED <<streamCache, debridServices, encodedData, magnetLink, cacheKey, hash,
                   sortedFallbacks, cacheReads, searchVars, streamVars, batchVars, rankVars, movieVars, episodeVars, cleanupVars, writerVars, tokenVars, adapterVars>>

ResolveNext ==
    \/ \E k \in CacheKeys, list \in FallbackLists : StoreFallback(k, list)
    \/ \E services \in Configs, token \in Tokens : StartRequest(services, token)
    \/ PrimaryReturns
    \/ FallbackReturns

SpecResolve == Init /\ [][ResolveNext]_vars

\* getStreams up to its first await: validate, build the query, start one
\* fetch per source, each raced against its 8s timer, all raced against 12s.
\* (variant: the overall timer is due before the providers' timers)
DeadlineOverallFirst(t) == IF t = "overall" THEN CACHE_CHECK_TIMEOUT - 1 ELSE CACHE_CHECK_TIMEOUT

\* (variant: season and episode are not validated)
GetStreamsCallUnchecked(q) ==
    /\ gpc \in {"idle", "done"}
    /\ query' = q
    /\ late' = [b \in Backends |-> FALSE]
    /\ bvalue' = [b \in Backends |-> << >>]
    /\ gpc' = "waiting"
    /\ result' = << >>
    /\ escaped' = FALSE
    /\ cause' = "none"
    /\ bstate' = [b \in Backends |-> "fetching"]
\* the body of getStreams up to its first await
GetStreamsCall(q) ==
    /\ gpc \in {"idle", "done"}
    /\ query' = q
    /\ late' = [b \in Backends |-> FALSE]
    /\ bvalue' = [b \in Backends |-> << >>]
    /\ IF GetIdType(q.id) = "null"
       THEN /\ gpc' = "done"
            /\ result' = << >>
            /\ escaped' = FALSE
            /\ cause' = "input"
            /\ bstate' = [b \in Backends |-> "idle"]
       ELSE IF q.type = "series" /\ (q.season = "" \/ q.episode = "")
       THEN /\ gpc' = "done"
            /\ result' = Catch.value
            /\ escaped' = Catch.escaped
            /\ cause' = "input"
            /\ bstate' = [b \in Backends |-> "idle"]
       ELSE /\ gpc' = "waiting"
            /\ result' = << >>
            /\ escaped' = FALSE
            /\ cause' = "none"
            /\ bstate' = [b \in Backends |-> "fetching"]

StartSearch(q) ==
    /\ GetStreamsCall(q)
    /\ UNCHANGED <<streamCache, resolveVars, streamVars, batchVars, rankVars, movieVars, episodeVars, cleanupVars, writerVars, tokenVars, adapterVars>>

\* fetch resolves before the 8s timer: response.ok or not
FetchResponds(b, ok) ==
    /\ gpc = "waiting"
    /\ bstate[b] = "fetching"
    /\ bstate' = [bstate EXCEPT ![b] = IF ok THEN "reading" ELSE "failed"]
    /\ UNCHANGED <<streamVars, batchVars, rankVars, movieVars, episodeVars, cleanupVars, writerVars,
                   tokenVars, adapterVars, streamCache, resolveVars, gpc, query, bvalue, late, result, escaped, cause>>

\* fetch rejects (network error) before the 8s timer
FetchFails(b) ==
    /\ gpc = "waiting"
    /\ bstate[b] = "fetching"
    /\ bstate' = [bstate EXCEPT ![b] = "failed"]
    /\ UNCHANGED <<streamVars, batchVars, rankVars, movieVars, episodeVars, cleanupVars, writerVars,
                   tokenVars, adapterVars, streamCache, resolveVars, gpc, query, bvalue, late, result, escaped, cause>>

\* the 8s timer of the source wins the race; the callback's catch returns []
ApiTimeout(b) ==
    /\ gpc = "waiting"
    /\ bstate[b] = "fetching"
    /\ bstate' = [bstate EXCEPT ![b] = "timeout"]
    /\ UNCHANGED <<streamVars, batchVars, rankVars, movieVars, episodeVars, cleanupVars, writerVars,
                   tokenVars, adapterVars, streamCache, resolveVars, gpc, query, bvalue, late, result, escaped, cause>>

\* the abandoned fetch of a timed-out source resolves after all: the race is
\* already settled and nobody reads the response
LateResponse(b) ==
    /\ gpc \in {"waiting", "done"}
    /\ bstate[b] = "timeout"
    /\ ~late[b]
    /\ late' = [late EXCEPT ![b] = TRUE]
    /\ UNCHANGED <<streamVars, batchVars, rankVars, movieVars, episodeVars, cleanupVars, writerVars,
                   tokenVars, adapterVars, streamCache, resolveVars, gpc, query, bstate, bvalue, result, escaped, cause>>

\* response.json() throws, or the body has no results array
BodyMalformed(b) ==
    /\ gpc = "waiting"
    /\ bstate[b] = "reading"
    /\ bstate' = [bstate EXCEPT ![b] = "failed"]
    /\ UNCHANGED <<streamVars, batchVars, rankVars, movieVars, episodeVars, cleanupVars, writerVars,
                   tokenVars, adapterVars, streamCache, resolveVars, gpc, query, bvalue, late, result, escaped, cause>>

\* response.json() resolves with {results}: tag, filter, fulfil
BodyArrives(b, results) ==
    /\ gpc = "waiting"
    /\ bstate[b] = "reading"
    /\ bstate' = [bstate EXCEPT ![b] = "ok"]
    /\ bvalue' = [bvalue EXCEPT ![b] = EpisodeFilter(TagSource(results, b), query)]
    /\ UNCHANGED <<streamVars, batchVars, rankVars, movieVars, episodeVars, cleanupVars, writerVars,
                   tokenVars, adapterVars, streamCache, resolveVars, gpc, query, late, result, escaped, cause>>

Settled(b) == bstate[b] \in {"ok", "failed", "timeout"}

\* the 12s timer wins the outer race: the rejection is caught by the catch of
\* getStreams.  By then every 8s timer has fired, so the sources still
\* unsettled are reading a body.
GlobalTimeout ==
    /\ gpc = "waiting"
    /\ \E b \in Backends : ~Settled(b)
    /\ \A b \in Backends : bstate[b] # "fetching"
    /\ gpc' = "done"
    /\ result' = Catch.value
    /\ escaped' = Catch.escaped
    /\ cause' = "timeout"
    /\ UNCHANGED <<streamVars, batchVars, rankVars, movieVars, episodeVars, cleanupVars, writerVars,
                   tokenVars, adapterVars, streamCache, resolveVars, query, bstate, bvalue, late>>

\* Promise.allSettled resolves first: deduplicate and return
Combine ==
    /\ gpc = "waiting"
    /\ \A b \in Backends : Settled(b)
    /\ gpc' = "done"
    /\ result' = Dedup(Concat(bvalue, BackendOrder), {}, << >>)
    /\ escaped' = FALSE
    /\ cause' = "combined"
    /\ UNCHANGED <<streamVars, batchVars, rankVars, movieVars, episodeVars, cleanupVars, writerVars,
                   tokenVars, adapterVars, streamCache, resolveVars, query, bstate, bvalue, late>>

SearchNext ==
    \/ \E q \in Queries : StartSearch(q)
    \/ \E b \in Backends, ok \in BOOLEAN : FetchResponds(b, ok)
    \/ \E b \in Backends : FetchFails(b)
    \/ \E b \in Backends : ApiTimeout(b)
    \/ \E b \in Backends : LateResponse(b)
    \/ \E b \in Backends : BodyMalformed(b)
    \/ \E b \in Backends, results \in ResultArrays : BodyArrives(b, results)
    \/ GlobalTimeout
    \/ Combine

SpecSearch == Init /\ [][SearchNext]_vars

\* ------------------------------------------------- stream endpoint, actions
\* cacheResults.forEach: the streams of the providers that succeeded, in the
\* order of debridServices
RECURSIVE AllProcessedStreams(_, _)
AllProcessedStreams(values, services) ==
    IF services = << >> THEN << >>
    ELSE (IF values[Head(services)].success THEN values[Head(services)].streams ELSE << >>)
         \o AllProcessedStreams(values, Tail(services))
SuccessfulServices(values, services) ==
    Cardinality({i \in 1..Len(services) : values[services[i]].success})

\* cachedStreamsForFallback
CachedStreamsForFallback(all) ==
    [i \in 1..Len(all) |->
        [hash |-> all[i].stream.hash, magnetLink |-> all[i].stream.magnetLink,
         filename |-> all[i].stream.filename]]

\* formattedStreams: one entry per processed stream that has a magnet link and
\* a file name; url carries the token of the resolve endpoint
FormattedStreams(all, key) ==
    LET valid == SelectSeq(all, LAMBDA e :
                     e.stream.magnetLink # NoMagnet /\ e.stream.filename # "") IN
    [i \in 1..Len(valid) |->
        [title |-> valid[i].stream.filename,
         url |-> [json |-> TRUE, magnetLink |-> valid[i].stream.magnetLink, cacheKey |-> key],
         service |-> valid[i].service,
         quality |-> ParseQuality(valid[i].stream.filename),
         size |-> ParseSize(valid[i].stream.filename)]]

\* the comparator of STEP 6
FinalCompare(a, b) ==
    IF a.quality # b.quality THEN b.quality - a.quality ELSE b.size - a.size
\* formattedStreams.sort(...).slice(0, 50)
SortedStreams(formatted) ==
    LET order == [j \in 1..Len(formatted) |->
                    [i \in 1..Len(formatted) |-> FinalCompare(formatted[j], formatted[i])]]
    IN SubSeq(StableSort(formatted, order), 1, Min(Len(formatted), MAX_RESPONSE_STREAMS))

\* res.json({streams}) / res.status(500).json({streams: [], ...})
StreamRespond(status, streams) ==
    /\ sResponse' = [status |-> status, streams |-> streams]
    /\ sResponses' = sResponses + 1
    /\ spc' = "done"

\* The request handler up to its first await: services, id, cache key, and the
\* call of getStreams (which runs to its own first await).  One stream request
\* is followed per behaviour.
StreamRequest(services, q) ==
    /\ spc = "idle"
    /\ sServices' = services
    /\ sQuery' = q
    /\ newStreams' = << >>
    /\ limitedStreams' = << >>
    /\ probe' = [p \in Providers |-> "idle"]
    /\ probeValue' = [p \in Providers |-> NoProbe]
    /\ probedWith' = [p \in Providers |-> << >>]
    /\ timers' = {}
    /\ successfulServices' = 0
    /\ sWrites' = 0
    /\ IF services = << >>
       THEN \* throw -> catch -> 500
            /\ sResponse' = [status |-> 500, streams |-> << >>]
            /\ sResponses' = 1
            /\ spc' = "done"
            /\ sQueries' = 0
            /\ UNCHANGED searchVars
       ELSE IF GetIdType(q.id) = "null"
       THEN /\ sResponse' = [status |-> 200, streams |-> << >>]
            /\ sResponses' = 1
            /\ spc' = "done"
            /\ sQueries' = 0
            /\ UNCHANGED searchVars
       ELSE /\ GetStreamsCall(q)
            /\ sQueries' = Cardinality({b \in Backends : bstate'[b] = "fetching"})
            /\ sResponse' = NoStreamResponse
            /\ sResponses' = 0
            /\ spc' = "searching"
    /\ UNCHANGED <<streamCache, immediate, resolveVars, batchVars, rankVars, movieVars, episodeVars, cleanupVars, writerVars, tokenVars, adapterVars>>

\* (variant: the deferred write is scheduled whatever the merge gave)
MergeAndRespondAlwaysStore(values) ==
    LET all == AllProcessedStreams(values, sServices) IN
    /\ successfulServices' = SuccessfulServices(values, sServices)
    /\ immediate' = [key |-> StreamCacheKey(sQuery), list |-> CachedStreamsForFallback(all)]
    /\ StreamRespond(200, SortedStreams(FormattedStreams(all, StreamCacheKey(sQuery))))
\* After Promise.allSettled(cacheCheckPromises): merge, schedule the deferred
\* write, format, sort, respond.
MergeAndRespond(values) ==
    LET all == AllProcessedStreams(values, sServices) IN
    /\ successfulServices' = SuccessfulServices(values, sServices)
    /\ IF all = << >>
       THEN /\ StreamRespond(200, << >>)
            /\ UNCHANGED immediate
       ELSE /\ immediate' = [key |-> StreamCacheKey(sQuery),
                             list |-> CachedStreamsForFallback(all)]
            /\ StreamRespond(200, SortedStreams(FormattedStreams(all, StreamCacheKey(sQuery))))

\* One cache-check promise settles; the one that settles last resumes the
\* handler in the same turn.
Settle(p, value, how) ==
    LET probe2 == [probe EXCEPT ![p] = how]
        values2 == [probeValue EXCEPT ![p] = value]
    IN /\ probe' = probe2
       /\ probeValue' = values2
       /\ IF \E i \in 1..Len(sServices) : probe2[sServices[i]] = "pending"
          THEN UNCHANGED <<spc, sResponse, sResponses, immediate, successfulServices>>
          ELSE MergeAndRespond(values2)

\* getStreams returns (its steps are those of SpecSearch; a call that failed
\* fast has its result already): triage, then one cache check per provider,
\* each raced against its 20s timer, all raced against the 30s timer.  The 15s
\* timer of the fetch race is armed after the 12s timer of getStreams and so
\* never settles that race.
StreamsReturned(list) ==
    /\ spc = "searching"
    /\ IF gpc = "done" THEN list = result ELSE list \in SearchOutputs
    /\ gpc' = "idle"
    /\ query' = NoQuery
    /\ bstate' = [b \in Backends |-> "idle"]
    /\ bvalue' = [b \in Backends |-> << >>]
    /\ late' = [b \in Backends |-> FALSE]
    /\ result' = << >>
    /\ escaped' = FALSE
    /\ cause' = "none"
    /\ newStreams' = list
    /\ IF list = << >>
       THEN /\ StreamRespond(200, << >>)
            /\ UNCHANGED <<limitedStreams, probe, probedWith, timers>>
       ELSE /\ limitedStreams' = LimitedStreams(list)
            /\ probe' = [p \in Providers |->
                            IF \E i \in 1..Len(sServices) : sServices[i] = p
                            THEN "pending" ELSE "idle"]
            /\ probedWith' = ProbeInputs(list, sServices)
            /\ timers' = {sServices[i] : i \in 1..Len(sServices)} \cup {"overall"}
            /\ spc' = "probing"
            /\ UNCHANGED <<sResponse, sResponses>>
    /\ UNCHANGED <<streamCache, sServices, sQuery, probeValue, successfulServices, immediate,
                   sQueries, sWrites, resolveVars, batchVars, rankVars, movieVars, episodeVars, cleanupVars, writerVars, tokenVars, adapterVars>>

\* The cache check of provider p answers before its timer fires.
ProbeSettles(p, answer) ==
    /\ spc = "probing"
    /\ probe[p] = "pending"
    /\ p \in timers
    /\ Settle(p, ProbeOutcome(p, probedWith[p], answer),
              IF answer = "throws" THEN "threw" ELSE "answered")
    /\ UNCHANGED <<streamCache, sServices, sQuery, newStreams, limitedStreams, probedWith,
                   timers, sQueries, sWrites, resolveVars, searchVars, batchVars, rankVars, movieVars, episodeVars, cleanupVars, writerVars, tokenVars, adapterVars>>

Deadline(t) == IF t = "overall" THEN OVERALL_TIMEOUT ELSE CACHE_CHECK_TIMEOUT

\* The armed timer that is due first fires.  A provider's 20s timer rejects the
\* race of a cache check that is still pending; the 30s timer rejects the
\* outer race, which fails the request if Promise.allSettled is still pending.
\* A timer whose race is already settled changes nothing.
TimerFires(t) ==
    /\ t \in timers
    /\ \A u \in timers : Deadline(t) <= Deadline(u)
    /\ timers' = timers \ {t}
    /\ IF t # "overall" /\ spc = "probing" /\ probe[t] = "pending"
       THEN Settle(t, ProbeFailed(t), "timeout")
       ELSE IF t = "overall" /\ spc = "probing"
       THEN /\ StreamRespond(500, << >>)
            /\ UNCHANGED <<probe, probeValue, immediate, successfulServices>>
       ELSE UNCHANGED <<spc, probe, probeValue, sResponse, sResponses, immediate,
                        successfulServices>>
    /\ UNCHANGED <<streamCache, sServices, sQuery, newStreams, limitedStreams, probedWith,
                   sQueries, sWrites, resolveVars, searchVars, batchVars, rankVars, movieVars, episodeVars, cleanupVars, writerVars, tokenVars, adapterVars>>

\* setImmediate(() => streamCache.set(cacheKey, cachedStreamsForFallback))
RunImmediate ==
    /\ immediate # NoImmediate
    /\ streamCache' = [streamCache EXCEPT ![immediate.key] = immediate.list]
    /\ immediate' = NoImmediate
    /\ sWrites' = sWrites + 1
    /\ UNCHANGED <<spc, sServices, sQuery, newStreams, limitedStreams, probe, probeValue,
                   probedWith, timers, successfulServices, sResponse, sResponses, sQueries,
                   resolveVars, searchVars, batchVars, rankVars, movieVars, episodeVars, cleanupVars, writerVars, tokenVars, adapterVars>>

StreamNext ==
    \/ \E services \in Configs, q \in Queries : StreamRequest(services, q)
    \/ \E list \in SearchOutputs : StreamsReturned(list)
    \/ \E p \in Providers, answer \in Answers : ProbeSettles(p, answer)
    \/ \E t \in Providers \cup {"overall"} : TimerFires(t)
    \/ RunImmediate

SpecStream == Init /\ [][StreamNext]_vars

\* STEP 2 of the stream endpoint on its own: from the list getStreams
\* returned to the arguments of the providers' cache checks.
Triage(list, services) ==
    /\ tIn = << >>
    /\ tIn' = list
    /\ tHanded' = ProbeInputs(list, services)
    /\ UNCHANGED <<streamCache, resolveVars, searchVars, streamVars, batchVars,
                   rA, rB, rOutA, rOutB, movieVars, episodeVars, cleanupVars, writerVars,
                   tokenVars, adapterVars>>

TriageNext ==
    \E list \in (SearchOutputs \cup LongOutputs) \ {<< >>}, services \in Configs \ {<< >>} :
        Triage(list, services)

SpecTriage == Init /\ [][TriageNext]_vars

\* ------------------------------------ Premiumize.checkCacheStatuses, actions
Call(batch, size) == [batch |-> batch, size |-> size]

\* checkCacheStatuses(hashes) up to its first await: build the batches and send
\* the request of the first one; without hashes it returns at once.
CheckStart(n) ==
    /\ cpc = "idle"
    /\ cHashes' = HashArray(n)
    /\ cResults' = << >>
    /\ cTry' = 0
    /\ cFailed' = FALSE
    /\ LET batches == Batches(HashArray(n), 0) IN
       IF batches = << >>
       THEN /\ cpc' = "done"
            /\ cBatch' = 0
            /\ cCalls' = << >>
            /\ cReturned' = << >>
       ELSE /\ cpc' = "request"
            /\ cBatch' = 1
            /\ cCalls' = << Call(1, Len(batches[1])) >>
            /\ cReturned' = << >>
    /\ UNCHANGED <<streamCache, resolveVars, searchVars, streamVars, rankVars, movieVars, episodeVars, cleanupVars, writerVars, tokenVars, adapterVars>>

\* makeRequest returns data: record the batch, then wait 500ms and send the
\* next batch, or return the results after the last one.  An answer without a
\* response array throws at data.response[index].
RequestSucceeds(resp) ==
    /\ cpc = "request"
    /\ LET batches == Batches(cHashes, 0) IN
       IF resp = "missing"
       THEN /\ cpc' = "done"
            /\ cReturned' = CatchBatch(cResults)
            /\ cFailed' = TRUE
            /\ UNCHANGED <<cBatch, cCalls, cResults, cTry>>
       ELSE /\ cResults' = AddBatch(cResults, batches[cBatch], resp)
            /\ cTry' = 0
            /\ IF cBatch < Len(batches)
               THEN /\ cBatch' = cBatch + 1
                    /\ cCalls' = Append(cCalls, Call(cBatch + 1, Len(batches[cBatch + 1])))
                    /\ UNCHANGED <<cpc, cReturned, cFailed>>
               ELSE /\ cpc' = "done"
                    /\ cReturned' = AddBatch(cResults, batches[cBatch], resp)
                    /\ UNCHANGED <<cBatch, cCalls, cFailed>>
    /\ UNCHANGED <<streamCache, cHashes, resolveVars, searchVars, streamVars, rankVars, movieVars, episodeVars, cleanupVars, writerVars, tokenVars, adapterVars>>

\* An attempt of makeRequest fails (network error, abort after 30s, status
\* 'error'): retried after 2s, up to three attempts; then the error is thrown
\* to the catch of checkCacheStatuses.
RequestFails ==
    /\ cpc = "request"
    /\ cFailed' = TRUE
    /\ IF cTry + 1 < Retries
       THEN /\ cTry' = cTry + 1
            /\ cCalls' = Append(cCalls, cCalls[Len(cCalls)])
            /\ UNCHANGED <<cpc, cReturned>>
       ELSE /\ cTry' = cTry + 1
            /\ cpc' = "done"
            /\ cReturned' = CatchBatch(cResults)
            /\ UNCHANGED cCalls
    /\ UNCHANGED <<streamCache, cHashes, cBatch, cResults, resolveVars, searchVars,
                   streamVars, rankVars, movieVars, episodeVars, cleanupVars, writerVars, tokenVars, adapterVars>>

BatchNext ==
    \/ \E n \in 0..MaxHashes : CheckStart(n)
    \/ \E resp \in Responses : RequestSucceeds(resp)
    \/ RequestFails

SpecBatch == Init /\ [][BatchNext]_vars

\* STEP 6 of the stream endpoint on its own: the final ranking of a list of
\* formatted streams and of a permutation of it.
RankItems ==
    {FormattedStreams(<< [stream |-> CacheEntry(c, "true", "true"), service |-> p,
                          hash |-> c.hash] >>, MovieKey)[1] :
        c \in ShortCandidates, p \in {"Premiumize", "RealDebrid"}}
RankInputs ==
    {s \in SeqsUpTo(RankItems, MaxRank) : \A i, j \in 1..Len(s) : i # j => s[i] # s[j]}

Rank(list, f) ==
    /\ rA = << >>
    /\ rA' = list
    /\ rB' = [i \in 1..Len(list) |-> list[f[i]]]
    /\ rOutA' = SortedStreams(list)
    /\ rOutB' = SortedStreams([i \in 1..Len(list) |-> list[f[i]]])
    /\ UNCHANGED <<streamCache, resolveVars, searchVars, streamVars, batchVars, tIn, tHanded, movieVars, episodeVars, cleanupVars, writerVars, tokenVars, adapterVars>>

RankNext ==
    \E list \in RankInputs \ {<< >>} : \E f \in Permutations(1..Len(list)) : Rank(list, f)

SpecRank == Init /\ [][RankNext]_vars

\* ------------------------------------------------------- file selection
\* findBestMovieFile of both adapters on one torrent's file list.  RealDebrid
\* calls its selector on the video files only, and not at all when there are
\* none.
SelectMovie(contents) ==
    /\ mpc = "idle"
    /\ mpc' = "done"
    /\ mFiles' = contents
    /\ mScored' = ScoredMovieFiles(PremiumizeFiles(contents))
    /\ mBest' = FindBestMovieFile(PremiumizeFiles(contents))
    /\ LET videoFiles == RDVideoFiles(contents)
       IN /\ mRDScored' = IF videoFiles = << >> THEN << >>
                          ELSE RDScoredMovieFiles(videoFiles)
          /\ mRDBest' = IF videoFiles = << >> THEN NoFile
                        ELSE RDFindBestMovieFile(videoFiles)
    /\ UNCHANGED <<streamCache, resolveVars, searchVars, streamVars, batchVars, rankVars,
                   episodeVars, cleanupVars, writerVars, tokenVars, adapterVars>>

MovieNext == \E contents \in MovieInputs : SelectMovie(contents)

SpecMovie == Init /\ [][MovieNext]_vars

\* findEpisodeFile of both adapters on one torrent's file list
SelectEpisode(contents, target) ==
    /\ epc = "idle"
    /\ epc' = "done"
    /\ eFiles' = contents
    /\ eTarget' = target
    /\ eFound' = FindEpisodeFile(PremiumizeFiles(contents), target[1], target[2])
    /\ eRDFound' = RDFindEpisodeFile(RDVideoFiles(contents), target[1], target[2])
    /\ UNCHANGED <<streamCache, resolveVars, searchVars, streamVars, batchVars, rankVars,
                   movieVars, cleanupVars, writerVars, tokenVars, adapterVars>>

EpisodeNext ==
    \E contents \in EpisodeInputs : \E target \in Targets : SelectEpisode(contents, target)

SpecEpisode == Init /\ [][EpisodeNext]_vars

\* --------------------------------------------------- Stream Cache cleanup
\* The Stream Cache as the Map it is, with its insertion order: the sequence
\* of its [key, value] entries.  Content keys are numbered in the order in
\* which they are first requested; a value is named by the number of the write
\* that stored it.  (The requests of the other specifications touch at most
\* two content keys, and there the cache is held as a function over them.)
Entry(key, value) == [key |-> key, value |-> value]
HasKey(map, key) == \E i \in 1..Len(map) : map[i].key = key
\* Map.prototype.set: a present key keeps its place and takes the new value,
\* a new key goes to the end
MapSet(map, key, value) ==
    IF HasKey(map, key)
    THEN [i \in 1..Len(map) |-> IF map[i].key = key THEN Entry(key, value) ELSE map[i]]
    ELSE Append(map, Entry(key, value))

\* (variant: entries.slice(0, 500))
ToKeepOldest(map) == SubSeq(map, 1, Min(KEEP_NEWEST, Len(map)))
\* entries.slice(-500)
ToKeep(map) == SubSeq(map, Len(map) - Min(KEEP_NEWEST, Len(map)) + 1, Len(map))
\* streamCache.clear(); toKeep.forEach(([key, value]) => streamCache.set(key, value))
\* leaves every key of toKeep at the place of its first set, with the value
\* of its last set
SetAll(toKeep) ==
    LET n == Len(toKeep)
        firstAt == SelectSeq([i \in 1..n |-> i],
                             LAMBDA i : \A j \in 1..(i - 1) : toKeep[j].key # toKeep[i].key)
        lastOf(key) == CHOOSE i \in 1..n :
                          /\ toKeep[i].key = key
                          /\ \A j \in (i + 1)..n : toKeep[j].key # key
    IN [k \in 1..Len(firstAt) |->
           Entry(toKeep[firstAt[k]].key, toKeep[lastOf(toKeep[firstAt[k]].key)].value)]

\* the deferred write of a stream request for a content key not requested before
SetNewKey ==
    /\ nextKey <= MaxKeys
    /\ entries' = MapSet(entries, nextKey, 1)
    /\ nextKey' = nextKey + 1
    /\ UNCHANGED <<tickKind, tickBefore>>

\* the deferred write of a later stream request for the oldest key still held
SetOldestKey ==
    /\ entries # << >>
    /\ entries' = MapSet(entries, entries[1].key, 2)
    /\ UNCHANGED <<nextKey, tickKind, tickBefore>>

\* the setInterval callback: one synchronous function, so no request runs
\* between clear() and the last set()
CleanupTick ==
    IF Len(entries) > STREAM_CACHE_LIMIT
    THEN /\ entries' = SetAll(ToKeep(entries))
         /\ tickKind' = "evicted"
         /\ tickBefore' = entries
         /\ UNCHANGED nextKey
    ELSE /\ tickKind' = "skipped"
         /\ UNCHANGED <<entries, nextKey, tickBefore>>

CleanupNext ==
    /\ \/ SetNewKey
       \/ SetOldestKey
       \/ CleanupTick
    /\ UNCHANGED <<streamCache, resolveVars, searchVars, streamVars, batchVars, rankVars,
                   movieVars, episodeVars, writerVars, tokenVars, adapterVars>>

SpecCleanup == Init /\ [][CleanupNext]_vars

\* ------------------------------------- concurrent writers of one content key
\* Two stream requests for the same content (MovieKey) and a resolve request
\* that reads the key.  Each stream request is taken from the point where
\* Promise.allSettled has resumed it with a non-empty allProcessedStreams.
Writers == {"A", "B"}
Processed(c) == [stream |-> CacheEntry(c, "true", "true"), service |-> "Premiumize",
                 hash |-> c.hash]
ProcessedLists ==
    {[i \in 1..Len(s) |-> Processed(s[i])] : s \in SearchOutputs \ {<< >>}}

\* (variant: the new list is added to the list already stored)
CacheWriteAppend(cache, key, list) ==
    [cache EXCEPT ![key] = IF cache[key] = Absent THEN list ELSE cache[key] \o list]
\* streamCache.set(cacheKey, cachedStreamsForFallback)
CacheWrite(cache, key, list) == [cache EXCEPT ![key] = list]

\* STEP 4 of request w: cachedStreamsForFallback is built and its write is
\* handed to setImmediate; the response follows in the same turn
ScheduleWrite(w, all) ==
    /\ wList[w] = << >>
    /\ wList' = [wList EXCEPT ![w] = CachedStreamsForFallback(all)]
    /\ wQueue' = Append(wQueue, [writer |-> w, key |-> MovieKey,
                                 list |-> CachedStreamsForFallback(all)])
    /\ UNCHANGED <<streamCache, wWritten, wRead>>

\* the oldest pending setImmediate callback runs
RunWrite ==
    /\ wQueue # << >>
    /\ streamCache' = CacheWrite(streamCache, Head(wQueue).key, Head(wQueue).list)
    /\ wWritten' = Append(wWritten, Head(wQueue).writer)
    /\ wQueue' = Tail(wQueue)
    /\ UNCHANGED <<wList, wRead>>

\* Step 2 of a resolve request for the key: streamCache.has and
\* streamCache.get in one turn; filter() copies, so the stored list is not
\* touched by the sort that follows
FallbackRead ==
    /\ ~wRead.done
    /\ wRead' = [done |-> TRUE, after |-> Len(wWritten),
                 cachedStreams |-> streamCache[MovieKey]]
    /\ UNCHANGED <<streamCache, wList, wQueue, wWritten>>

WritersNext ==
    /\ \/ \E w \in Writers, all \in ProcessedLists : ScheduleWrite(w, all)
       \/ RunWrite
       \/ FallbackRead
    /\ UNCHANGED <<resolveVars, searchVars, streamVars, batchVars, rankVars, movieVars,
                   episodeVars, cleanupVars, tokenVars, adapterVars>>

SpecWriters == Init /\ [][WritersNext]_vars

\* ------------------------------------------------------ token round trip
\* STEP 5 of the stream endpoint for one cached stream of an accepted
\* request: the token put into the stream's url
FormatStream(params, magnet) ==
    /\ kpc = "idle"
    /\ kpc' = "formatted"
    /\ kParams' = params
    /\ kMagnet' = magnet
    /\ kCacheKey' = CacheKeyString(params.type, params.id, params.season, params.episode)
    /\ kEncoded' = EncodedData(magnet, CacheKeyString(params.type, params.id,
                                                      params.season, params.episode))
    /\ UNCHANGED <<kDecoded, kContent, kCalls>>

\* the resolve endpoint on that token, with every provider failing on the
\* primary stream: the decoded object, the content settings, and the adapter
\* calls of Step 1 in order
ResolveToken(services) ==
    /\ kpc = "formatted"
    /\ kpc' = "resolved"
    /\ LET decodedData == JsonParse(Base64Decode(kEncoded))
           content == ContentOfKey(decodedData.cacheKey)
       IN /\ kDecoded' = decodedData
          /\ kContent' = content
          /\ kCalls' = [i \in 1..Len(services) |->
                           AdapterCall(services[i], decodedData.magnetLink, content)]
    /\ UNCHANGED <<kParams, kMagnet, kCacheKey, kEncoded>>

TokenNext ==
    /\ \/ \E params \in StreamParams, magnet \in TokenMagnets \ {NoBtihMagnet} :
             FormatStream(params, magnet)
       \/ \E services \in Configs \ {<< >>} : ResolveToken(services)
    /\ UNCHANGED <<streamCache, resolveVars, searchVars, streamVars, batchVars, rankVars,
                   movieVars, episodeVars, cleanupVars, writerVars, adapterVars>>

SpecToken == Init /\ [][TokenNext]_vars

\* ------------------------------------------------ file-list memoization
\* Premiumize.getFileList up to its first suspension: the memoized list is
\* returned if it is fresh; otherwise an entry there is deleted and the
\* DirectDL request is sent
GetFileListCall(c, apiKey, infoHash) ==
    /\ fCalls[c].pc = "idle"
    /\ \A b \in FileCallIds : b < c => fCalls[b].pc # "idle"
    /\ LET fileKey == FileCacheKey(infoHash)
           cached == fileCache[fileKey]
           call == [IdleCall EXCEPT !.apiKey = apiKey, !.infoHash = infoHash]
       IN IF cached.has /\ Fresh(cached, fClock)
          THEN /\ fCalls' = [fCalls EXCEPT ![c] =
                                [call EXCEPT !.pc = "returned", !.result = cached.data,
                                             !.hit = TRUE]]
               /\ UNCHANGED fileCache
          ELSE /\ fileCache' = [fileCache EXCEPT ![fileKey] = NoEntry]
               /\ fCalls' = [fCalls EXCEPT ![c] =
                                [call EXCEPT !.pc = "fetching", !.expired = cached.has,
                                             !.requests = 1]]
    /\ UNCHANGED fClock

\* makeRequest returned the data: the list is memoized and returned
DirectDLSucceeds(c) ==
    /\ fCalls[c].pc = "fetching"
    /\ LET files == DirectDL(fCalls[c].apiKey, fCalls[c].infoHash, fClock)
       IN /\ fileCache' = [fileCache EXCEPT ![FileCacheKey(fCalls[c].infoHash)] =
                              [data |-> files, timestamp |-> fClock, has |-> TRUE]]
          /\ fCalls' = [fCalls EXCEPT ![c].pc = "returned", ![c].result = files]
    /\ UNCHANGED fClock

\* makeRequest threw: the catch block rethrows
DirectDLFails(c) ==
    /\ fCalls[c].pc = "fetching"
    /\ fCalls' = [fCalls EXCEPT ![c].pc = "threw", ![c].error = "makeRequest"]
    /\ UNCHANGED <<fileCache, fClock>>

ClockAdvances ==
    /\ fClock < MaxTicks * ClockStep
    /\ fClock' = fClock + ClockStep
    /\ UNCHANGED <<fileCache, fCalls>>

FileListNext ==
    /\ \/ \E c \in FileCallIds, apiKey \in ApiKeys, infoHash \in InfoHashes :
             GetFileListCall(c, apiKey, infoHash)
       \/ \E c \in FileCallIds : DirectDLSucceeds(c)
       \/ \E c \in FileCallIds : DirectDLFails(c)
       \/ ClockAdvances
    /\ UNCHANGED <<streamCache, resolveVars, searchVars, streamVars, batchVars, rankVars,
                   movieVars, episodeVars, cleanupVars, writerVars, tokenVars, rdVars, retryVars,
                   orderVars>>

SpecFileList == Init /\ [][FileListNext]_vars

\* ------------------------------------------------ RealDebrid.getCachedUrl
RDCall(endpoint, arg) == [endpoint |-> endpoint, arg |-> arg]
RDThrow(error) ==
    /\ dpc' = "threw"
    /\ dResult' = [kind |-> "error", value |-> error]
\* unrestrictLink(torrent, type, season, episode) up to its request
Unrestrict(torrent) ==
    LET plan == UnrestrictPlan(torrent, dReq)
    IN IF plan.kind = "throw"
       THEN RDThrow(plan.error) /\ UNCHANGED dCalls
       ELSE /\ dpc' = "unrestricting"
            /\ dCalls' = Append(dCalls, RDCall("unrestrict", plan.link))
            /\ UNCHANGED dResult

\* getCachedUrl(magnetLink, type, season, episode) up to findTorrent's request
GetCachedUrlCall(req, contents, selected, layout) ==
    /\ dpc = "idle"
    /\ dpc' = "finding"
    /\ dReq' = req
    /\ dRemote' = [contents |-> contents, selected |-> selected, layout |-> layout]
    /\ dCalls' = <<RDCall("torrents", << >>)>>
    /\ UNCHANGED <<dTorrent, dSeen, dResult>>

\* findTorrent returns the id, or throws and createTorrentId posts the magnet
FindTorrentReturns(found) ==
    /\ dpc = "finding"
    /\ IF found
       THEN dpc' = "info" /\ dCalls' = Append(dCalls, RDCall("info", << >>))
       ELSE dpc' = "creating" /\ dCalls' = Append(dCalls, RDCall("addMagnet", << >>))
    /\ UNCHANGED <<dReq, dRemote, dTorrent, dSeen, dResult>>

AddMagnetReturns(ok) ==
    /\ dpc = "creating"
    /\ IF ok
       THEN /\ dpc' = "info" /\ dCalls' = Append(dCalls, RDCall("info", << >>))
            /\ UNCHANGED dResult
       ELSE RDThrow("addMagnet") /\ UNCHANGED dCalls
    /\ UNCHANGED <<dReq, dRemote, dTorrent, dSeen>>

\* Step 2 and Step 3: the first /torrents/info answer and the branch on its status
InfoReturns(status) ==
    /\ dpc = "info"
    /\ LET torrent == RDTorrent(status, RDTorrentFiles(dRemote.contents, dRemote.selected),
                                dRemote.layout)
       IN /\ dTorrent' = torrent
          /\ dSeen' = Append(dSeen, status)
          /\ IF StatusReady(status) THEN Unrestrict(torrent)
             ELSE IF StatusDownloading(status)
             THEN RDThrow("Torrent is downloading - not cached") /\ UNCHANGED dCalls
             ELSE IF StatusWaitingSelection(status)
             THEN LET plan == SelectPlan(torrent, dReq)
                  IN IF plan.kind = "throw"
                     THEN RDThrow(plan.error) /\ UNCHANGED dCalls
                     ELSE /\ dpc' = "selecting"
                          /\ dCalls' = Append(dCalls, RDCall("selectFiles", plan.fileIds))
                          /\ UNCHANGED dResult
             ELSE RDThrow("Torrent not ready") /\ UNCHANGED dCalls
    /\ UNCHANGED <<dReq, dRemote>>

\* a request of makeRequest fails: the error leaves getCachedUrl
RDRequestFails ==
    /\ dpc \in {"info", "selecting", "info2", "unrestricting"}
    /\ RDThrow("makeRequest")
    /\ UNCHANGED <<dReq, dRemote, dTorrent, dSeen, dCalls>>

\* selectFiles is answered: the provider has the files selected; delay(3000) starts
SelectFilesReturns ==
    /\ dpc = "selecting"
    /\ dpc' = "delay"
    /\ dRemote' = [dRemote EXCEPT !.selected =
                      {dCalls[Len(dCalls)].arg[k] : k \in 1..Len(dCalls[Len(dCalls)].arg)}]
    /\ UNCHANGED <<dReq, dTorrent, dSeen, dCalls, dResult>>

\* the delay is over: the torrent is asked for once more
DelayElapses ==
    /\ dpc = "delay"
    /\ dpc' = "info2"
    /\ dCalls' = Append(dCalls, RDCall("info", << >>))
    /\ UNCHANGED <<dReq, dRemote, dTorrent, dSeen, dResult>>

\* the second /torrents/info answer
UpdatedInfoReturns(status) ==
    /\ dpc = "info2"
    /\ LET updatedTorrent ==
               RDTorrent(status, RDTorrentFiles(dRemote.contents, dRemote.selected),
                         dRemote.layout)
       IN /\ dTorrent' = updatedTorrent
          /\ dSeen' = Append(dSeen, status)
          /\ IF StatusReady(status) THEN Unrestrict(updatedTorrent)
             ELSE /\ RDThrow("Torrent not cached - downloading required")
                  /\ UNCHANGED dCalls
    /\ UNCHANGED <<dReq, dRemote>>

\* /unrestrict/link is answered: unrestrictResponse.download is returned
UnrestrictReturns ==
    /\ dpc = "unrestricting"
    /\ dpc' = "returned"
    /\ dResult' = [kind |-> "url", value |-> <<"download", dCalls[Len(dCalls)].arg>>]
    /\ UNCHANGED <<dReq, dRemote, dTorrent, dSeen, dCalls>>

RDNext ==
    /\ \/ \E req \in RDRequests, contents \in RDContents, layout \in {"byIndex", "compact"} :
             \E selected \in SUBSET (1..Len(contents)) :
                GetCachedUrlCall(req, contents, selected, layout)
       \/ \E found \in BOOLEAN : FindTorrentReturns(found)
       \/ \E ok \in BOOLEAN : AddMagnetReturns(ok)
       \/ \E status \in RDStatuses : InfoReturns(status)
       \/ RDRequestFails
       \/ SelectFilesReturns
       \/ DelayElapses
       \/ \E status \in RDStatuses : UpdatedInfoReturns(status)
       \/ UnrestrictReturns
    /\ UNCHANGED <<streamCache, resolveVars, searchVars, streamVars, batchVars, rankVars,
                   movieVars, episodeVars, cleanupVars, writerVars, tokenVars, fileVars, retryVars,
                   orderVars>>

SpecRD == Init /\ [][RDNext]_vars

\* ------------------------------------------------ Premiumize.makeRequest
\* what makes an attempt fail: fetch rejects, the 30s timer aborts it, the
\* body is no JSON, or data.status is 'error'
AttemptErrors == {"network", "abort", "json", "INVALID_API_KEY", "API Error"}
ResponseData == {"data1", "data2"}
\* (variant: the 2s wait follows every failed attempt)
WaitsAfterAlways(i) == TRUE
\* if (i < retries - 1) await new Promise(r => setTimeout(r, 2000))
WaitsAfter(i) == i < Retries - 1
\* the head of the for loop: the next attempt, or throw lastError
LoopHead(i) ==
    IF i < Retries
    THEN /\ qpc' = "fetching"
         /\ qFetches' = qFetches + 1
         /\ UNCHANGED qResult
    ELSE /\ qpc' = "threw"
         /\ qResult' = [kind |-> "error", value |-> qErrors'[Len(qErrors')]]
         /\ UNCHANGED qFetches

MakeRequestCall(method) ==
    /\ qpc = "idle"
    /\ qMethod' = method
    /\ qI' = 0
    /\ qErrors' = << >>
    /\ LoopHead(0)
    /\ UNCHANGED qWaits

\* return data
AttemptSucceeds(data) ==
    /\ qpc = "fetching"
    /\ qpc' = "returned"
    /\ qResult' = [kind |-> "data", value |-> data]
    /\ UNCHANGED <<qMethod, qI, qErrors, qFetches, qWaits>>

\* catch (error): lastError = error, then the wait or the next turn of the loop
AttemptFails(error) ==
    /\ qpc = "fetching"
    /\ qErrors' = Append(qErrors, error)
    /\ IF WaitsAfter(qI)
       THEN /\ qpc' = "waiting"
            /\ qWaits' = qWaits + 1
            /\ UNCHANGED <<qI, qFetches, qResult>>
       ELSE /\ qI' = qI + 1
            /\ LoopHead(qI + 1)
            /\ UNCHANGED qWaits
    /\ UNCHANGED qMethod

\* the 2s timer fires: i++ and the head of the loop
WaitElapses ==
    /\ qpc = "waiting"
    /\ qI' = qI + 1
    /\ LoopHead(qI + 1)
    /\ UNCHANGED <<qMethod, qErrors, qWaits>>

RetryNext ==
    /\ \/ \E method \in {"GET", "POST"} : MakeRequestCall(method)
       \/ \E data \in ResponseData : AttemptSucceeds(data)
       \/ \E error \in AttemptErrors : AttemptFails(error)
       \/ WaitElapses
    /\ UNCHANGED <<streamCache, resolveVars, searchVars, streamVars, batchVars, rankVars,
                   movieVars, episodeVars, cleanupVars, writerVars, tokenVars, fileVars,
                   rdVars, orderVars>>

SpecRetry == Init /\ [][RetryNext]_vars

\* ------------------------- the deferred write against the resolve requests
\* Two stream requests (for the same content or not) and one resolve request
\* on one event loop.  A stream request is taken from the point where its
\* cache probes have settled: the probe of a provider settles by its answer
\* (poll phase) or by its timeout timer (timers phase), and the handler
\* resumes in the same phase.  A resolve request arrives in the poll phase;
\* its primary attempts end in the same turn (file list memoized, no network
\* call) or in a later poll or timers phase.
LoopPhases == <<"timers", "poll", "check">>
PhaseAfter(phase) ==
    CASE phase = "timers" -> "poll"
      [] phase = "poll" -> "check"
      [] phase = "check" -> "timers"

\* STEP 4 to STEP 6 of stream request r in one turn: cachedStreamsForFallback
\* is built, its write is handed to setImmediate, the response with the
\* tokens is sent
StreamResponds(r, key, all) ==
    /\ oPhase \in {"timers", "poll"}
    /\ oStream[r].pc = "probing"
    /\ oStream' = [oStream EXCEPT ![r] = [pc |-> "responded", key |-> key,
                                          list |-> CachedStreamsForFallback(all)]]
    /\ oImmediate' = Append(oImmediate, [key |-> key,
                                         list |-> CachedStreamsForFallback(all)])
    /\ UNCHANGED <<streamCache, oPhase, oDelivered, oResolve>>

\* the check phase runs the oldest setImmediate callback:
\* streamCache.set(cacheKey, cachedStreamsForFallback)
RunDeferredWrite ==
    /\ oPhase = "check"
    /\ oImmediate # << >>
    /\ streamCache' = CacheWrite(streamCache, Head(oImmediate).key, Head(oImmediate).list)
    /\ oImmediate' = Tail(oImmediate)
    /\ UNCHANGED <<oPhase, oStream, oDelivered, oResolve>>

\* the loop moves to its next phase; the check phase ends when every
\* callback queued for it has run
LoopAdvances ==
    /\ oPhase = "check" => oImmediate = << >>
    /\ oPhase' = PhaseAfter(oPhase)
    /\ UNCHANGED <<streamCache, oStream, oImmediate, oDelivered, oResolve>>

\* the client receives the response of stream request r, and with it the
\* tokens
ClientReceives(r) ==
    /\ oStream[r].pc = "responded"
    /\ r \notin oDelivered
    /\ oDelivered' = oDelivered \cup {r}
    /\ UNCHANGED <<streamCache, oPhase, oStream, oImmediate, oResolve>>

\* Step 2 of the resolve request: streamCache.has(cacheKey) and
\* streamCache.get(cacheKey)
FallbackStep(r) ==
    [pc |-> "fallback", token |-> r, cachedStreams |-> streamCache[oStream[r].key]]

\* a resolve request carrying a token of response r arrives; inTurn: every
\* primary attempt fails without a network call, so Step 2 is reached in the
\* turn of the arrival
ResolveArrives(r, inTurn) ==
    /\ oPhase = "poll"
    /\ r \in oDelivered
    /\ oResolve.pc = "idle"
    /\ oResolve' = IF inTurn THEN FallbackStep(r)
                   ELSE [pc |-> "primary", token |-> r, cachedStreams |-> Absent]
    /\ UNCHANGED <<streamCache, oPhase, oStream, oImmediate, oDelivered>>

\* the last primary attempt fails (provider answer or timer) and Step 2 is
\* reached
PrimaryFailed ==
    /\ oPhase \in {"timers", "poll"}
    /\ oResolve.pc = "primary"
    /\ oResolve' = FallbackStep(oResolve.token)
    /\ UNCHANGED <<streamCache, oPhase, oStream, oImmediate, oDelivered>>

OrderNext ==
    /\ \/ \E r \in Writers, key \in CacheKeys, all \in ProcessedLists :
              StreamResponds(r, key, all)
       \/ RunDeferredWrite
       \/ LoopAdvances
       \/ \E r \in Writers : ClientReceives(r)
       \/ \E r \in Writers, inTurn \in BOOLEAN : ResolveArrives(r, inTurn)
       \/ PrimaryFailed
    /\ UNCHANGED <<resolveVars, searchVars, streamVars, batchVars, rankVars, movieVars,
                   episodeVars, cleanupVars, writerVars, tokenVars, fileVars, rdVars,
                   retryVars>>

SpecOrder == Init /\ [][OrderNext]_vars

\* ---------------------------------------------------------------- claims
\* The attempts the handler is to make for a request, in order.
IsPrefix(s, t) == Len(s) <= Len(t) /\ SubSeq(t, 1, Len(s)) = s
PrimaryPlan == [i \in 1..Len(debridServices) |-> <<magnetLink, debridServices[i]>>]
RECURSIVE FallbackPlan(_)
FallbackPlan(alts) ==
    IF alts = << >> THEN << >>
    ELSE [i \in 1..Len(debridServices) |-> <<Head(alts).magnetLink, debridServices[i]>>]
             \o FallbackPlan(Tail(alts))
Plan == PrimaryPlan \o FallbackPlan(sortedFallbacks)
LastAttempt == attempts[Len(attempts)]
ValidRequest == debridServices # << >> /\ hash # NoHash

\* C1: attempts are made in the order primary x providers, then alternates x
\* providers; the first attempt that yields a URL ends the request with a
\* redirect to that URL, and a primary that resolves leaves the alternates
\* untried.
C1_FirstSuccessWins ==
    /\ IsPrefix(attempts, Plan)
    /\ response.kind = "redirect" =>
          /\ attempts # << >>
          /\ response.url.of = LastAttempt[1]
          /\ response.url.by = LastAttempt[2]
    /\ (response.kind = "redirect" /\ response.url.of = magnetLink) =>
          /\ Len(attempts) <= Len(debridServices)
          /\ sortedFallbacks = << >>
C1_Witness ==
    /\ response.kind = "redirect"
    /\ Len(debridServices) = 3
    /\ Len(sortedFallbacks) = 1
    /\ Len(attempts) = 5
    /\ response.url.by = debridServices[2]
    /\ response.url.of = sortedFallbacks[1].magnetLink

\* C2: every resolve request ends with exactly one response, a redirect or
\* the 404; when every attempt of the plan failed it is the 404.
C2_ExactlyOneResponse ==
    /\ responses <= 1
    /\ pc \in {"primary", "fallback"} => responses = 0 /\ response.kind = "none"
    /\ pc = "done" => responses = 1 /\ response.kind \in {"redirect", "404"}
    /\ (pc = "done" /\ attempts = Plan /\ response.kind # "redirect") => response = NotFound
C2_Witness ==
    /\ pc = "done"
    /\ response = NotFound
    /\ Len(sortedFallbacks) = 2
    /\ Len(debridServices) = 3
    /\ attempts = Plan

\* C3: a failure of one provider on one magnet link never aborts the
\* resolution: a request that ends with the 404 has made every attempt of
\* its plan.
C3_NoAbort ==
    (pc = "done" /\ response = NotFound /\ ValidRequest) =>
        /\ Len(attempts) >= Len(debridServices)
        /\ attempts = Plan

\* C4: every redirect targets a URL that starts with http.
C4_RedirectIsHttp ==
    response.kind = "redirect" => response.url.scheme = "http"

\* C5: the alternates are tried in non-increasing quality tier, none has the
\* primary's hash, and each is tried on the providers in configured order.
C5_FallbackOrder ==
    /\ \A i, j \in 1..Len(sortedFallbacks) :
          i < j => ParseQuality(sortedFallbacks[i].filename)
                       >= ParseQuality(sortedFallbacks[j].filename)
    /\ \A i \in 1..Len(sortedFallbacks) : sortedFallbacks[i].hash # hash
    /\ \A i \in 1..Len(attempts) :
          i > Len(debridServices) =>
              /\ attempts[i] = FallbackPlan(sortedFallbacks)[i - Len(debridServices)]
              /\ ToLowerCase(ExtractInfoHash(attempts[i][1])) # hash
    /\ pc = "fallback" =>
          /\ Len(attempts) = Len(debridServices) * fb + svc
          /\ sortedFallbacks # << >>
C5_Witness ==
    /\ pc = "done"
    /\ Len(debridServices) = 3
    /\ Len(sortedFallbacks) = 2
    /\ attempts = Plan
    /\ streamCache[cacheKey] = <<sortedFallbacks[2], sortedFallbacks[1]>>
    /\ ParseQuality(sortedFallbacks[1].filename) > ParseQuality(sortedFallbacks[2].filename)
    /\ sortedFallbacks[1].hash # sortedFallbacks[2].hash

\* C6: a legacy token (bare magnet link) is resolved on the primary magnet
\* link only: the Stream Cache is not read, no alternate is tried, and when
\* every provider fails the answer is the 404.
C6_LegacyNoFallback ==
    (pc # "idle" /\ ~encodedData.json) =>
        /\ cacheReads = 0
        /\ pc # "fallback"
        /\ sortedFallbacks = << >>
        /\ \A i \in 1..Len(attempts) : attempts[i][1] = magnetLink
        /\ Len(attempts) <= Len(debridServices)
        /\ (pc = "done" /\ response.kind # "redirect") => response = NotFound
C6_Witness ==
    /\ pc = "done"
    /\ ~encodedData.json
    /\ response = NotFound
    /\ Len(debridServices) = 3
    /\ Len(attempts) = 3
    /\ \E k \in CacheKeys : streamCache[k] # Absent /\ Len(streamCache[k]) = 2

\* What the sources that answered successfully delivered, in source order.
Delivered(b) == IF bstate[b] = "ok" THEN bvalue[b] ELSE << >>
DeliveredAll == Concat([b \in Backends |-> Delivered(b)], BackendOrder)
HashKey(x) == ToLowerCase(x.magnetLink.btih)
\* the first-seen entry of every hash, in order of appearance
RECURSIVE PickFirstSeen(_, _)
PickFirstSeen(all, i) ==
    IF i > Len(all) THEN << >>
    ELSE (IF \A j \in 1..(i - 1) : HashKey(all[j]) # HashKey(all[i])
          THEN <<all[i]>> ELSE << >>) \o PickFirstSeen(all, i + 1)
SameStreams(res, picked) ==
    /\ Len(res) = Len(picked)
    /\ \A k \in 1..Len(res) :
          /\ res[k].magnetLink = picked[k].magnetLink
          /\ res[k].source = picked[k].source
          /\ res[k].websiteTitle = picked[k].title
          /\ res[k].hash = HashKey(picked[k])

\* C7: a source that times out or errors contributes nothing and does not
\* fail the call: what is returned is the deduplicated union of what the
\* sources that answered delivered.
C7_PartialFailure ==
    (gpc = "done" /\ cause # "input") =>
        /\ ~escaped
        /\ SameStreams(result, PickFirstSeen(DeliveredAll, 1))
        /\ \A k \in 1..Len(result) : bstate[result[k].source] = "ok"

\* C8: when the 12s timer fires, the candidates of the sources that had
\* answered by then are still returned.
C8_TimeoutKeepsDelivered ==
    (gpc = "done" /\ cause = "timeout") =>
        Len(result) = Len(PickFirstSeen(DeliveredAll, 1))

\* C9: getStreams never throws, and returns the empty array when every
\* source failed or timed out.
C9_NeverThrows ==
    /\ ~escaped
    /\ gpc = "done" => result \in SeqsUpTo({result[k] : k \in 1..Len(result)}, Len(result))
    /\ (gpc = "done" /\ \A b \in Backends : bstate[b] \in {"idle", "failed", "timeout"}) =>
          result = << >>
C9_Witness ==
    /\ gpc = "done"
    /\ cause = "combined"
    /\ bstate["b1"] = "timeout" /\ late["b1"]
    /\ bstate["b2"] = "failed"
    /\ bstate["b3"] = "timeout" /\ ~late["b3"]
    /\ result = << >>

\* C10: the returned array holds at most one candidate per lower-cased
\* info-hash, the first seen in source order; the number returned is the
\* number of distinct hashes among the candidates.
C10_DedupFirstSeen ==
    /\ \A i, j \in 1..Len(result) :
          i < j => ToLowerCase(result[i].hash) # ToLowerCase(result[j].hash)
    /\ (gpc = "done" /\ cause = "combined") =>
          LET all == Concat(bvalue, BackendOrder) IN
          /\ SameStreams(result, PickFirstSeen(all, 1))
          /\ Len(result) = Cardinality({HashKey(all[i]) : i \in 1..Len(all)})
C10_Witness ==
    /\ gpc = "done"
    /\ cause = "combined"
    /\ Len(bvalue["b1"]) = 2 /\ HashKey(bvalue["b1"][1]) = HashKey(bvalue["b1"][2])
    /\ bvalue["b1"][1].magnetLink # bvalue["b1"][2].magnetLink
    /\ Len(bvalue["b3"]) = 2 /\ HashKey(bvalue["b3"][1]) # HashKey(bvalue["b3"][2])
    /\ Len(result) = 2
    /\ result[1].source = "b1" /\ result[1].magnetLink = bvalue["b1"][1].magnetLink
    /\ result[2].source = "b3"

\* The season and episode number a title carries in its marker.
MarkerOf(title) ==
    CASE title \in {"Show.S01E05.720p", "Show.S01E05.2160p"} -> <<1, 5>>
      [] title = "Show.S01E06.720p" -> <<1, 6>>
      [] title = "Show.S01E050.720p" -> <<1, 50>>
      [] OTHER -> << >>

\* C11: every candidate returned for a series search of season S, episode E
\* carries the marker of exactly season S, episode E; a candidate without a
\* marker is not returned.
C11_ExactEpisode ==
    (gpc = "done" /\ query.type = "series") =>
        \A k \in 1..Len(result) :
            MarkerOf(result[k].websiteTitle) = <<ParseInt(query.season), ParseInt(query.episode)>>

MissingEpisode(q) == q.type = "series" /\ (q.season = "" \/ q.episode = "")

\* C12: a series request without season or episode issues no backend query,
\* probes no provider, writes nothing to the Stream Cache, and is answered
\* with an empty stream list.
C12_FailFast ==
    (spc # "idle" /\ sServices # << >> /\ MissingEpisode(sQuery)) =>
        /\ sQueries = 0
        /\ \A b \in Backends : bstate[b] = "idle"
        /\ ~escaped
        /\ spc = "searching" => (gpc = "done" /\ result = << >> /\ sResponses = 0)
        /\ spc \in {"searching", "done"}
        /\ \A p \in Providers : probe[p] = "idle" /\ probedWith[p] = << >>
        /\ timers = {}
        /\ immediate = NoImmediate /\ sWrites = 0
        /\ \A k \in CacheKeys : streamCache[k] = Absent
        /\ spc = "done" => (sResponses = 1 /\ sResponse = [status |-> 200, streams |-> << >>])
C12_Witness ==
    /\ spc = "done"
    /\ Len(sServices) = 3
    /\ sQuery.type = "series" /\ sQuery.season = "1" /\ sQuery.episode = ""
    /\ sResponse = [status |-> 200, streams |-> << >>]
    /\ sQueries = 0

Configured(p) == \E i \in 1..Len(sServices) : sServices[i] = p
Probed == spc \in {"probing", "done"} /\ newStreams # << >> /\ sServices # << >>
\* the response holds the stream of entry e of provider p
InResponse(p, e) ==
    \E k \in 1..Len(sResponse.streams) :
        /\ sResponse.streams[k].service = p
        /\ sResponse.streams[k].url.magnetLink = e.stream.magnetLink

\* C13: the cache checks of all configured providers are pending together; a
\* provider whose check timed out or threw contributes no stream and is not
\* counted as successful; the request still answers with the cached streams
\* of the providers whose check answered.
C13_ProbePartialFailure ==
    Probed =>
        /\ \A p \in Providers : Configured(p) <=> probe[p] # "idle"
        /\ \A p \in Providers :
              probe[p] \in {"threw", "timeout"} =>
                  probeValue[p].streams = << >> /\ ~probeValue[p].success
        /\ spc = "done" =>
              /\ sResponse.status = 200
              /\ successfulServices = Cardinality({p \in Providers : probe[p] = "answered"})
              /\ \A p \in Providers :
                    probe[p] = "answered" =>
                        \A i \in 1..Len(probeValue[p].streams) :
                            InResponse(p, probeValue[p].streams[i])

\* C14: when the cache check of every configured provider timed out or threw,
\* the request is answered with an empty stream list, not with an error.
C14_NoProviderSucceeds ==
    /\ sResponse.status = 500 => sServices = << >>
    /\ (Probed /\ spc = "done" /\ \A p \in Providers :
                                     Configured(p) => probe[p] \in {"threw", "timeout"}) =>
          /\ sResponses = 1
          /\ sResponse = [status |-> 200, streams |-> << >>]
          /\ immediate = NoImmediate
C14_Witness ==
    /\ spc = "done"
    /\ newStreams # << >>
    /\ probe = [Premiumize |-> "timeout", RealDebrid |-> "threw", TorBox |-> "timeout"]
    /\ timers = {}
    /\ sResponse = [status |-> 200, streams |-> << >>]

\* C15: an entry is merged, sent to the client or put on the fallback list
\* only if the provider reported cached = true for it.
C15_OnlyCachedTrue ==
    /\ \A p \in Providers : \A i \in 1..Len(probeValue[p].streams) :
          probeValue[p].streams[i].stream.reported = "true"
    /\ \A k \in 1..Len(sResponse.streams) :
          \A i \in 1..Len(probeValue[sResponse.streams[k].service].streams) :
              LET e == probeValue[sResponse.streams[k].service].streams[i] IN
              e.stream.magnetLink = sResponse.streams[k].url.magnetLink =>
                  e.stream.reported = "true"
    /\ \A j \in 1..Len(immediate.list) :
          \E p \in Providers : \E i \in 1..Len(probeValue[p].streams) :
              /\ probeValue[p].streams[i].stream.hash = immediate.list[j].hash
              /\ probeValue[p].streams[i].stream.reported = "true"

HashSet == {cHashes[i] : i \in 1..Len(cHashes)}
\* the hashes of the chunks before chunk k
ChunksBefore(k) == {cHashes[i] : i \in 1..Min(99 * (k - 1), Len(cHashes))}

\* C16: without a provider error the check sends ceil(|H| / 99) requests, one
\* per chunk and in chunk order, each with at most 99 hashes and only after
\* the previous chunk was answered, and returns a mapping whose keys are H.
C16_ChunkedCheck ==
    /\ \A j \in 1..Len(cCalls) : cCalls[j].size >= 1 /\ cCalls[j].size <= 99
    /\ ~cFailed =>
          /\ \A j \in 1..Len(cCalls) : cCalls[j].batch = j
          /\ cpc = "request" =>
                (Len(cCalls) = cBatch /\ DOMAIN cResults = ChunksBefore(cBatch))
          /\ cpc = "done" =>
                /\ Len(cCalls) = (Len(cHashes) + 98) \div 99
                /\ DOMAIN cReturned = HashSet
C16_Witness ==
    /\ cpc = "done"
    /\ ~cFailed
    /\ Len(cHashes) = 199
    /\ Len(cCalls) = 3
    /\ cCalls[2].size = 99 /\ cCalls[3].size = 1
    /\ Cardinality(DOMAIN cReturned) = 199

\* the call ended because the request of chunk cBatch failed
ChunkFailed == cpc = "done" /\ cHashes # << >> /\ DOMAIN cResults # HashSet

\* C17: when chunk k fails after chunks 1..k-1 succeeded, the mapping returned
\* holds the results of chunks 1..k-1 and no request is sent for a later chunk.
C17_PartialResults ==
    ChunkFailed =>
        /\ DOMAIN cResults = ChunksBefore(cBatch)
        /\ cReturned = cResults
        /\ \A j \in 1..Len(cCalls) : cCalls[j].batch <= cBatch

\* a is ranked before b by the triage: higher tier, or same tier and a declared
\* size nearer to 5000 MB
TriageBefore(a, b) ==
    \/ ParseQuality(a.filename) > ParseQuality(b.filename)
    \/ /\ ParseQuality(a.filename) = ParseQuality(b.filename)
       /\ Abs(ParseSize(a.filename) - 5000) < Abs(ParseSize(b.filename) - 5000)
HandedOk(list) ==
    LET n == Len(list)
        handed == {list[i] : i \in 1..n}
        input == {tIn[j] : j \in 1..Len(tIn)}
    IN /\ n <= 100
       /\ n = Min(Len(tIn), 100)
       /\ handed \subseteq input
       /\ Cardinality(handed) = n
       /\ \A i \in 1..(n - 1) : ~TriageBefore(list[i + 1], list[i])
       /\ \A x \in input \ handed : ~TriageBefore(x, list[n])

BandMin(quality) ==
    CASE quality = 2160 -> 10000 [] quality = 1080 -> 2000
      [] quality = 720 -> 1000 [] quality = 480 -> 500 [] OTHER -> 0
BandMax(quality) ==
    CASE quality = 2160 -> 80000 [] quality = 1080 -> 16000
      [] quality = 720 -> 8000 [] quality = 480 -> 4000 [] OTHER -> 0
BandDistance(x) ==
    IF x.quality \notin {2160, 1080, 720, 480} THEN 0
    ELSE IF x.size < BandMin(x.quality) THEN BandMin(x.quality) - x.size
    ELSE IF x.size > BandMax(x.quality) THEN x.size - BandMax(x.quality)
    ELSE 0
RankedBefore(a, b) ==
    \/ a.quality > b.quality
    \/ /\ a.quality = b.quality
       /\ \/ BandDistance(a) < BandDistance(b)
          \/ (BandDistance(a) = BandDistance(b) /\ a.size > b.size)

\* C19: the stream list sent to the client is ordered by tier descending,
\* within a tier by the distance of the size to the tier's ideal band
\* ascending, and then by size descending.
C19_FinalRanking ==
    \A i \in 1..(Len(sResponse.streams) - 1) :
        ~RankedBefore(sResponse.streams[i + 1], sResponse.streams[i])

\* C20: two lists that are permutations of each other get the same final
\* ranking.
C20_RankingDeterminism ==
    rOutA = rOutB

\* ---- C21: Premiumize.findBestMovieFile returns the first video file of
\* maximal score (100, +300 over 500 MB, +200 over 1000 MB, +150 over 2000 MB,
\* +100 over 5000 MB, -800 for an extras keyword in the path, +50 for .mkv,
\* +40 for .mp4, +100 for a path depth of at most 2), and null when the list
\* has no video file.
StatedScore(content) ==
    100
    + (IF content.size > MB(500) THEN 300 ELSE 0)
    + (IF content.size > MB(1000) THEN 200 ELSE 0)
    + (IF content.size > MB(2000) THEN 150 ELSE 0)
    + (IF content.size > MB(5000) THEN 100 ELSE 0)
    - (IF HasBadKeyword(content.path) THEN 800 ELSE 0)
    + (IF EndsWith(content.path, ExtMkv) THEN 50 ELSE 0)
    + (IF EndsWith(content.path, <<".", "m", "p", "4">>) THEN 40 ELSE 0)
    + (IF SplitLength(content.path, "/") <= 2 THEN 100 ELSE 0)
VideoAt == {i \in 1..Len(mFiles) : IsVideo(mFiles[i].path)}
IsContent(file, content) == file.path = content.path /\ file.size = content.size
C21_MovieSelection ==
    mpc = "done" =>
        IF VideoAt = {} THEN mBest = NoFile
        ELSE \E i \in VideoAt :
                /\ IsContent(mBest, mFiles[i])
                /\ \A j \in VideoAt : StatedScore(mFiles[j]) <= StatedScore(mFiles[i])
                /\ \A j \in VideoAt : j < i => StatedScore(mFiles[j]) < StatedScore(mFiles[i])
\* two video files of equal score: the first one is returned
C21_Witness ==
    /\ mpc = "done"
    /\ VideoAt = {1, 2}
    /\ StatedScore(mFiles[1]) = StatedScore(mFiles[2])
    /\ IsContent(mBest, mFiles[1])

\* ---- C22: in the scored order of either selector, a file with an extras
\* keyword never stands before a file without one that is larger than 500 MB.
NoExtrasAhead(paths, sizes) ==
    \A i, j \in 1..Len(paths) :
        (i < j /\ HasBadKeyword(paths[i]))
            => (HasBadKeyword(paths[j]) \/ sizes[j] <= MB(500))
C22_ExtrasNeverOutrank ==
    mpc = "done" =>
        /\ NoExtrasAhead([i \in 1..Len(mScored) |-> mScored[i].path],
                         [i \in 1..Len(mScored) |-> mScored[i].size])
        /\ NoExtrasAhead([i \in 1..Len(mRDScored) |-> mRDScored[i].path],
                         [i \in 1..Len(mRDScored) |-> mRDScored[i].bytes])
        /\ (\E i \in VideoAt : ~HasBadKeyword(mFiles[i].path) /\ mFiles[i].size > MB(500))
              => (~HasBadKeyword(mBest.path) /\ ~HasBadKeyword(mRDBest.path))
\* the best-placed extras file (over 5000 MB, .mkv, in the root) with the
\* worst-placed main file (just over 500 MB, .avi, three levels deep)
C22_Witness ==
    /\ mpc = "done"
    /\ Len(mFiles) = 2
    /\ HasBadKeyword(mFiles[1].path) /\ StatedScore(mFiles[1]) = 200
    /\ ~HasBadKeyword(mFiles[2].path) /\ StatedScore(mFiles[2]) = 400
    /\ IsContent(mBest, mFiles[2])
    /\ mRDBest.path = mFiles[2].path

\* ---- C23: when exactly one file of the list carries the marker of the target
\* season and episode and every other file carries the marker of another
\* episode, findEpisodeFile of both adapters returns that file, wherever it
\* stands and whether the markers are zero-padded or not.
HasMarker(content, m) == \E padded \in BOOLEAN : content.path = EpisodePath(m[1], m[2], padded)
TargetAt == {i \in 1..Len(eFiles) : HasMarker(eFiles[i], eTarget)}
OthersAt == {i \in 1..Len(eFiles) : \E m \in Markers \ {eTarget} : HasMarker(eFiles[i], m)}
C23_EpisodeSelection ==
    (/\ epc = "done"
     /\ Cardinality(TargetAt) = 1
     /\ TargetAt \cup OthersAt = 1..Len(eFiles))
        => \A i \in TargetAt : eFound.path = eFiles[i].path /\ eRDFound.path = eFiles[i].path

\* ---- C24: when no file matches the target episode exactly or loosely,
\* findEpisodeFile returns the largest of the files that carry the season's
\* marker (Season.3, S03 or "Season 3") and are not samples.
EpisodeVideoFiles == SelectSeq(PremiumizeFiles(eFiles), LAMBDA f : f.isVideo)
NoEpisodeMatch ==
    \A i \in 1..Len(EpisodeVideoFiles) :
        /\ ~ExactMatch(EpisodeVideoFiles[i], eTarget[1], eTarget[2])
        /\ ~LooseMatch(EpisodeVideoFiles[i], eTarget[1], eTarget[2])
SeasonThreePacks == {SeasonExample, SeasonS03, SeasonSpace}
PacksAt == {i \in 1..Len(eFiles) : eFiles[i] \in SeasonThreePacks}
C24_SeasonPackFallback ==
    (epc = "done" /\ eTarget[1] = 3 /\ NoEpisodeMatch /\ PacksAt # {})
        => \E i \in PacksAt :
              /\ \A j \in PacksAt : eFiles[j].size <= eFiles[i].size
              /\ eFound.path = eFiles[i].path
              /\ eRDFound.path = eFiles[i].path

\* ---- C25: Premiumize.findEpisodeFile returns a file matching an exact
\* pattern when the list has one, otherwise a file matching loosely when the
\* list has one, otherwise a file of the season, and null when no pass
\* matches, wherever the files stand in the list.
FoundAmong(matching) ==
    \E i \in 1..Len(EpisodeVideoFiles) :
        matching[i] /\ eFound.path = EpisodeVideoFiles[i].path
C25_OrderedPasses ==
    epc = "done" =>
        LET exact == [i \in 1..Len(EpisodeVideoFiles) |->
                         ExactMatch(EpisodeVideoFiles[i], eTarget[1], eTarget[2])]
            loose == [i \in 1..Len(EpisodeVideoFiles) |->
                         LooseMatch(EpisodeVideoFiles[i], eTarget[1], eTarget[2])]
            season == [i \in 1..Len(EpisodeVideoFiles) |->
                         SeasonMatch(EpisodeVideoFiles[i], eTarget[1])]
            some(matching) == \E i \in 1..Len(EpisodeVideoFiles) : matching[i]
        IN IF some(exact) THEN FoundAmong(exact)
           ELSE IF some(loose) THEN FoundAmong(loose)
           ELSE IF some(season) THEN FoundAmong(season)
           ELSE eFound = NoFile
\* a loosely matching file stands before the exactly matching one, which is
\* returned
C25_Witness ==
    /\ epc = "done"
    /\ Len(eFiles) = 2
    /\ eFiles[1] = LooseOnly
    /\ ExactMatch(eFiles[2], eTarget[1], eTarget[2])
    /\ ~ExactMatch(eFiles[1], eTarget[1], eTarget[2])
    /\ LooseMatch(eFiles[1], eTarget[1], eTarget[2])
    /\ eFound.path = eFiles[2].path

\* ---- C26: the Stream Cache never holds more content keys than its
\* capacity bound of 1000.
C26_Bounded == Len(entries) <= 1000

\* ---- C27: a step of the cleanup either finds the cache within the bound and
\* leaves it as it is, or leaves exactly the 500 newest entries, with their
\* keys, values and order; no step leaves the cache part-way between the two.
NewestFirstIndex(map) == Len(map) - 499
ListAfter(n) == IF n = 0 THEN Absent ELSE wList[wWritten[n]]
C28_WholeEntryWrites ==
    /\ streamCache[MovieKey] = ListAfter(Len(wWritten))
    /\ wRead.done => wRead.cachedStreams = ListAfter(wRead.after)
\* the read fell between the two writes: it returned the first writer's list,
\* and the entry now is the second writer's different list
C28_Witness ==
    /\ Len(wWritten) = 2
    /\ wList["A"] # wList["B"]
    /\ wRead.done /\ wRead.after = 1
    /\ wRead.cachedStreams = wList[wWritten[1]]
    /\ streamCache[MovieKey] = wList[wWritten[2]]

\* ---- C29: a stream request that found a cached stream writes the Stream
\* Cache once, under the content key of its own query, after the response has
\* been sent; a request that ends with an empty list or an error leaves the
\* Stream Cache as it was.
CacheUntouched == \A k \in CacheKeys : streamCache[k] = Absent
FoundCached == sResponse.status = 200 /\ sResponse.streams # << >>
C29_WriteOnce ==
    /\ sWrites <= 1
    /\ spc # "done" => (sWrites = 0 /\ immediate = NoImmediate /\ CacheUntouched)
    /\ immediate # NoImmediate =>
          (spc = "done" /\ FoundCached /\ immediate.key = StreamCacheKey(sQuery)
           /\ sWrites = 0 /\ CacheUntouched)
    /\ (spc = "done" /\ FoundCached /\ immediate = NoImmediate) =>
          /\ sWrites = 1
          /\ streamCache[StreamCacheKey(sQuery)] # Absent
          /\ \A k \in CacheKeys \ {StreamCacheKey(sQuery)} : streamCache[k] = Absent
    /\ (spc = "done" /\ ~FoundCached) =>
          (sWrites = 0 /\ immediate = NoImmediate /\ CacheUntouched)
\* the response has been sent while the write is still pending
C29_Witness ==
    /\ spc = "done"
    /\ FoundCached
    /\ sQuery.type = "series"
    /\ immediate # NoImmediate
    /\ immediate.key = SeriesKey
    /\ CacheUntouched

\* ---- C30: resolving the token of a formatted stream uses the stream's
\* magnet link and the request's content key, derives the request's type,
\* season and episode from the key, and hands them to the adapter of every
\* provider.
RequestNumber(str) == IF str = << >> THEN Null ELSE Num(ParseIntOf(str))
RequestType == IF kParams.type = WordSeries THEN "series" ELSE "movie"
C30_TokenRoundTrip ==
    kpc = "resolved" =>
        /\ kDecoded.magnetLink = kMagnet
        /\ kDecoded.cacheKey = kCacheKey
        /\ kContent.contentType = RequestType
        /\ kContent.season = RequestNumber(kParams.season)
        /\ kContent.episode = RequestNumber(kParams.episode)
        /\ \A i \in 1..Len(kCalls) :
              /\ kCalls[i].magnetLink = kMagnet
              /\ kCalls[i].type = RequestType
              /\ kCalls[i].season = RequestNumber(kParams.season)
              /\ kCalls[i].episode = RequestNumber(kParams.episode)

\* C31: file-list memoization (Premiumize.getFileList). A call that finds an
\* entry for its info-hash less than 30 minutes old returns that entry's list
\* without a provider request and leaves the cache alone; a call that finds
\* none, or one of 30 minutes or more, leaves no entry under the key and sends
\* the request; a successful fetch memoizes exactly the list it returns, with
\* the time of the fetch; a failed fetch memoizes nothing and throws.
C31_Memoization ==
    [][\A c \in FileCallIds :
          LET fileKey == FileCacheKey(fCalls'[c].infoHash)
              cached == fileCache[fileKey]
          IN /\ (fCalls[c].pc = "idle" /\ fCalls'[c].pc # "idle") =>
                   IF cached.has /\ fClock - cached.timestamp < 1800000
                   THEN /\ fCalls'[c].pc = "returned"
                        /\ fCalls'[c].result = cached.data
                        /\ fCalls'[c].requests = 0
                        /\ fileCache' = fileCache
                   ELSE /\ fCalls'[c].pc = "fetching"
                        /\ fCalls'[c].requests = 1
                        /\ ~fileCache'[fileKey].has
             /\ (fCalls[c].pc = "fetching" /\ fCalls'[c].pc = "returned") =>
                   /\ fileCache'[fileKey] = [data |-> fCalls'[c].result,
                                             timestamp |-> fClock, has |-> TRUE]
                   /\ fCalls'[c].requests = 1
             /\ (fCalls[c].pc = "fetching" /\ fCalls'[c].pc = "threw") =>
                   /\ fileCache' = fileCache
                   /\ fCalls'[c].error # "none"]_vars

\* a first call fetched, a second one was served from the memo, and a third
\* one found the entry expired and fetched again
C31_Witness ==
    /\ \E c \in FileCallIds :
          fCalls[c].pc = "returned" /\ fCalls[c].hit /\ fCalls[c].result.at < fClock
    /\ \E c \in FileCallIds :
          fCalls[c].pc = "returned" /\ fCalls[c].expired /\ fCalls[c].result.at >= 1800000

BestSelectedIndex ==
    RDBestMovieObject(SelectSeq(dTorrent.files,
                                LAMBDA f : f.selected = 1 /\ IsVideoFile(f.path))).id
HasSelectedVideo ==
    \E i \in 1..Len(dTorrent.files) :
        dTorrent.files[i].selected = 1 /\ IsVideoFile(dTorrent.files[i].path)
LastCall == dCalls[Len(dCalls)]

\* C32: RealDebrid.getCachedUrl with type movie, once it has seen the torrent
\* ready with a selected video file whose best-scored one has a download link
\* at its index, posts exactly that link to /unrestrict/link and returns the
\* URL of the answer.
C32_UnrestrictsBestLink ==
    (/\ dReq.type = "movie"
     /\ dSeen # << >>
     /\ dSeen[Len(dSeen)] \in {"downloaded", "dead"}
     /\ HasSelectedVideo
     /\ BestSelectedIndex \in 1..Len(dTorrent.links)
     /\ dTorrent.links[BestSelectedIndex] # NoLink)
    => /\ LastCall = RDCall("unrestrict", dTorrent.links[BestSelectedIndex])
       /\ dpc = "returned" =>
             dResult = [kind |-> "url",
                        value |-> <<"download", dTorrent.links[BestSelectedIndex]>>]
       /\ dpc = "threw" => dResult.value = "makeRequest"

CallCount(endpoint) ==
    Cardinality({i \in 1..Len(dCalls) : dCalls[i].endpoint = endpoint})
RDFinished == dpc \in {"returned", "threw"} /\ dResult.value # "makeRequest"
\* what holds of every call whatever the selection step does
OnlyReadyCore ==
    /\ dpc = "returned" => dSeen[Len(dSeen)] \in {"downloaded", "dead"}
    /\ CallCount("unrestrict") > 0 => dSeen[Len(dSeen)] \in {"downloaded", "dead"}
    /\ (/\ dSeen # << >>
        /\ dSeen[1] \notin {"downloaded", "dead", "waiting_files_selection"})
       => dpc = "threw" /\ CallCount("unrestrict") = 0 /\ CallCount("selectFiles") = 0
    /\ Len(dSeen) <= 2 /\ CallCount("info") <= 2
    /\ CallCount("selectFiles") <= 1 /\ CallCount("unrestrict") <= 1
    /\ Len(dSeen) = 2 => dSeen[1] = "waiting_files_selection"
\* after one selectFiles call: one more poll, and a URL only if it shows ready
SelectedThenPolled ==
    /\ CallCount("selectFiles") = 1
    /\ CallCount("info") = 2 /\ Len(dSeen) = 2
    /\ dSeen[2] \notin {"downloaded", "dead"} =>
          dpc = "threw" /\ CallCount("unrestrict") = 0

C34_SelectorsEquivalent ==
    (mpc = "done" /\ Len(mScored) = Len(mRDScored)) =>
        /\ \A i \in 1..Len(mScored) :
              \A j \in 1..Len(mRDScored) :
                 mScored[i].path = mRDScored[j].path => mScored[i].score = mRDScored[j].score
        /\ mBest.path = mRDBest.path

\* the info-hash and provider of an attempt
AttemptKey(attempt) == <<ToLowerCase(ExtractInfoHash(attempt[1])), attempt[2]>>

\* C35: within one resolve request every (info-hash, provider) pair is
\* attempted at most once, also when the stored list names a hash more than
\* once because several providers reported it cached.
C35_AttemptedOnce ==
    \A i, j \in 1..Len(attempts) :
        i # j => AttemptKey(attempts[i]) # AttemptKey(attempts[j])

\* C37: a step of a resolve request leaves the Stream Cache as it is: no key
\* added, removed or replaced, and the list under the content key neither
\* reordered nor altered by the filtering and sorting of the fallback list.
C37_ResolveKeepsCache ==
    [][resolveVars' # resolveVars => streamCache' = streamCache]_vars

\* the resolver has built a fallback list in another order than the stored one
C37_Witness ==
    /\ pc \in {"fallback", "done"}
    /\ cacheKey # NoKey
    /\ Len(streamCache[cacheKey]) = 2
    /\ streamCache[cacheKey] # Absent
    /\ sortedFallbacks = <<streamCache[cacheKey][2], streamCache[cacheKey][1]>>
    /\ sortedFallbacks # streamCache[cacheKey]

\* C38: Premiumize.makeRequest makes at most 3 attempts; it returns the data
\* of the first attempt that succeeds and makes no further one; it waits 2s
\* after a failed attempt that is not the last; after 3 failed attempts it
\* throws the error of the last attempt.
C38_BoundedRetries ==
    /\ qFetches <= 3 /\ qWaits <= 2 /\ Len(qErrors) <= 3
    /\ qpc = "fetching" => qFetches = Len(qErrors) + 1 /\ qWaits = Len(qErrors)
    /\ qpc = "waiting" => qFetches = Len(qErrors) /\ qWaits = Len(qErrors)
    /\ qpc = "returned" =>
          /\ qResult.kind = "data"
          /\ qFetches = Len(qErrors) + 1
          /\ qWaits = Len(qErrors)
    /\ qpc = "threw" =>
          /\ qFetches = 3 /\ Len(qErrors) = 3 /\ qWaits = 2
          /\ qResult = [kind |-> "error", value |-> qErrors[3]]

\* two attempts failed in different ways and the third one's data is returned
C38_Witness ==
    /\ qpc = "returned"
    /\ qErrors = <<"abort", "INVALID_API_KEY">>
    /\ qFetches = 3 /\ qWaits = 2

NamesSample(file) ==
    Includes(ToLower(file.path), WordSample) \/ Includes(ToLower(file.path), WordTrailer)

\* C39 as stated: the episode selectors never return a file whose name
\* contains 'sample' or 'trailer'.
C39_NeverSample ==
    epc = "done" =>
        /\ eFound # NoFile => ~NamesSample(eFound)
        /\ eRDFound # NoFile => ~NamesSample(eRDFound)

\* C39, amended: a file whose name contains 'sample' or 'trailer' is returned
\* only by the first pass, as a file that matches an exact pattern of the
\* target; the loose pass and the season-pack pass never return one.
C39_SampleOnlyIfExact ==
    epc = "done" =>
        /\ (eFound # NoFile /\ NamesSample(eFound)) =>
              ExactMatch(eFound, eTarget[1], eTarget[2])
        /\ (eRDFound # NoFile /\ NamesSample(eRDFound)) =>
              ExactMatch(eRDFound, eTarget[1], eTarget[2])
        /\ (\A i \in 1..Len(eFiles) : ~ExactMatch(eFiles[i], eTarget[1], eTarget[2])) =>
              /\ eFound # NoFile => ~NamesSample(eFound)
              /\ eRDFound # NoFile => ~NamesSample(eRDFound)

\* with no exact match, a sample of the season is passed over for the pack
C39_Witness ==
    /\ epc = "done"
    /\ eTarget = <<3, 9>>
    /\ Len(eFiles) = 2
    /\ eFiles[1] = SeasonSample
    /\ eFiles[2] = SeasonS03
    /\ NamesSample(eFiles[1])
    /\ eFound.path = eFiles[2].path
    /\ eRDFound.path = eFiles[2].path

\* C40: every token of a stream response finds, at the fallback step of a
\* resolve request that carries it, the fallback list of the response that
\* issued it stored under its cache key (no eviction happens here).
C40_WriteBeforeResolve ==
    oResolve.pc = "fallback" => oResolve.cachedStreams = oStream[oResolve.token].list

Next == ResolveNext \/ SearchNext
Spec == Init /\ [][Next]_vars
====
